---- MODULE Spec2Model ----
(***************************************************************************)
(* Model of the ad-processing priority queue: the Redis-backed sharded     *)
(* queue manager, the Ad aggregate and its repositories, the bulk priority *)
(* rewrite of the ad service and the worker pool of the processor.         *)
(*                                                                         *)
(* Several specifications share the variables below; each exercises one    *)
(* part of the program and leaves the other variables at their initial     *)
(* values:                                                                 *)
(*   SpecQ    the queue manager's operations called one at a time          *)
(*   SpecRace several callers of the queue manager, interleaved at every   *)
(*            Redis command                                                *)
(*   SpecAd   the methods of one Ad entity                                 *)
(*   SpecStore callers that load, change and save ads through one of the   *)
(*            two repositories                                             *)
(*   SpecSys  the running system: CreateAd, the processor's dispatcher and *)
(*            workers, and the bulk priority                               *)
(*            rewrite, interleaved at every Redis and database command;    *)
(*            SpecLive adds the daemon and FairLive the dispatcher's       *)
(*            ticker                                                       *)
(*   SpecStarve the queue manager beside the anti-starvation daemon over   *)
(*            the minutes an entry waits; FairStarve adds the clock and    *)
(*            the daemon's ticker                                          *)
(*   SpecRepo the operations of a repository on the ads table              *)
(*   SpecCmd  the command service: ExecuteCommand on parsed commands, one  *)
(*            at a time, over ads that were created                        *)
(*   SpecLookup the command service's ExecuteCommand as one step, its      *)
(*            repository of commands and GetCommandStatus                  *)
(*   SpecPool the processor from Start to Stop: dispatcher, two workers,   *)
(*            daemon, API process; SpecStop/FairStop the same over one ad  *)
(*   SpecScore the score functions applied to two (priority, time) pairs   *)
(*   SpecPass whole passes of ApplyAntiStarvation with nothing else        *)
(*            running, the mechanism enabled or not                        *)
(*   SpecPeek GetNext and DequeueBatch called one at a time                *)
(*   SpecPair the queue manager's writes called one at a time, with the    *)
(*            call before the last one remembered                          *)
(***************************************************************************)
EXTENDS Integers, Sequences, FiniteSets, TLC

(***************************************************************************)
(* Bounds of the model.                                                    *)
(***************************************************************************)
NumAds == 3          \* ad ids 1..NumAds stand for the UUIDs
MaxNow == 1          \* the clock runs over the seconds 0..MaxNow
MaxBatch == 3        \* batch sizes 0..MaxBatch
NumCallers == 2      \* concurrent callers of the queue manager
NumRaceAds == 2      \* ids the concurrent callers work on
MaxEnqueues == 2     \* enqueues per id under concurrent callers
MaxVersion == 4      \* an entity is not changed beyond this version
NumStoreAds == 1     \* ids the callers of a repository work on
NumSysAds == 2       \* ads created in the running system
NumLiveAds == 1      \* ads created in the running system with the daemon
WorkerCount == 1     \* config.Queue.WorkerCount
PoolWorkerCount == 2 \* config.Queue.WorkerCount of the processor that is stopped
BatchSize == 2       \* config.Queue.BatchSize
\* The capacity of a worker's channel; main.go:530 makes it 10.  The model
\* takes a small capacity so that a full channel is reached with few ads.
ChanCap == 1
MaxRewrites == 1     \* bulk priority rewrites in one behaviour
NumStarveAds == 2    \* ids enqueued beside the anti-starvation daemon
NumRepoAds == 2      \* rows of the ads table under the repository's operations
MaxCommands == 2      \* commands the command service handles before a lookup
MaxScoreSpan == 1     \* times this far from 0 and from TMax are scored
MaxFiveMinutes == 4  \* the daemon's clock runs over this many five-minute spans

(***************************************************************************)
(* Program constants.                                                      *)
(***************************************************************************)
\* redis_queue_manager.go:52 multiplies the priority by 10000000000 and :56
\* takes maxTime = 9999999999.  The model checker's integers are 32 bits
\* wide, so both are scaled down by the same factor: PBand is a power of ten
\* and TMax = PBand - 1, as in the source.
PBand == 100000
TMax == 99999
ItemBand == 10000000
NumCmdAds == 2        \* ads created beside the command service
ShardCount == 2
PriorityLow == 1
PriorityNormal == 3
PriorityHigh == 5
\* "+1 priority every 5 minutes" (redis_queue_manager.go:398), in seconds.
FiveMinutes == 300
\* The period of the ticker of runAntiStarvation (main.go:705), in seconds.
TickerPeriod == 30

AdIds == 1..NumAds
ShardKeys == 0..(ShardCount - 1)
Priorities == {PriorityLow, PriorityNormal, PriorityHigh}

VARIABLES
    redis,      \* shard key -> sorted set: a set of [member, score], one per member
    now,        \* the wall clock, in whole seconds (time.Now().Unix())
    config,     \* RedisQueueManager.config: AntiStarvationEnabled, MaxWaitTime (s)
    ret,        \* what the last queue-manager call returned
    enqAt,      \* history: the second at which each id was last enqueued
    call,       \* per concurrent caller: the call it is in and its local variables
    returned,   \* history: how often each id was returned by a dequeue (up to 2)
    enqueues,   \* history: how often each id was enqueued
    gone,       \* history: ids removed from the queue and not enqueued since
    ad,         \* SpecAd: the entity
    prevAd,     \* SpecAd, history: the entity before the last method call
    adCall,     \* SpecAd, history: the last method call and its error
    store,      \* the repository: id -> stored ad, or NoRow
    repo,       \* SpecStore: which repository the callers use
    client,     \* SpecStore: per caller, the entity it holds
    saveLog,    \* SpecStore, history: the last Save, its row before and after;
                \* SpecRepo, history: the last call, its arguments and the table before
    created,    \* SpecSys: per ad, how far its CreateAd call is
    disp,       \* SpecSys: the dispatcher (pollQueue) and its local variables
    chans,      \* SpecSys: per worker, the content of its processingCh
    work,       \* SpecSys: per worker, where it is in processAd and its entity
    rw,         \* SpecSys: the bulk priority rewrite and its local variables
    dm,         \* SpecSys: the anti-starvation daemon and its local variables
    ctxDone,    \* SpecSys: the processor's context is cancelled
    dropped,    \* SpecSys, history: ids the dispatcher dropped, not handed over since
    aborted,    \* SpecSys, history: ids whose processAd returned on cancellation
    lastPrio,   \* SpecStarve, history: the priority a caller last gave each id
    cmd,        \* SpecCmd: the Command that ExecuteCommand is handling
    exec,       \* SpecCmd: where ExecuteCommand is, its response, and as history
                \* the statuses the command went through
    commands,   \* SpecLookup: MemoryCommandRepository.commands, id -> Command
    lookup,     \* SpecLookup: the last GetCommandStatus call and what it returned
    stopCall,       \* SpecPool: where the call of AdProcessor.Stop is
    wg,         \* SpecPool: the goroutines of the processor that have not returned
    sc          \* SpecScore: two (priority, time) pairs and what is computed of them

queueVars == <<redis, now, config, ret, enqAt>>
raceVars == <<call, returned, enqueues, gone>>
adVars == <<ad, prevAd, adCall>>
storeVars == <<repo, client, saveLog>>
sysVars == <<created, disp, chans, work, rw, dm, ctxDone, dropped, aborted>>
starveVars == <<lastPrio>>
lookupVars == <<commands, lookup>>
cmdVars == <<cmd, exec, lookupVars>>
poolVars == <<stopCall, wg>>

vars == <<queueVars, raceVars, adVars, store, storeVars, sysVars, starveVars, cmdVars,
          poolVars, sc>>

\* The variables each specification leaves alone.
restQ == <<config, raceVars, adVars, store, storeVars, sysVars, starveVars, cmdVars, poolVars, sc>>
restRace == <<ret, enqAt, adVars, store, storeVars, sysVars, starveVars, cmdVars, poolVars, sc>>
restAd == <<redis, config, ret, enqAt, raceVars, store, storeVars, sysVars, starveVars,
           cmdVars, poolVars, sc>>
restStore == <<redis, config, ret, enqAt, raceVars, adVars, sysVars, starveVars, cmdVars, poolVars, sc>>
restSys == <<ret, enqAt, raceVars, adVars, storeVars, starveVars, cmdVars, poolVars, sc>>
restPool == <<ret, enqAt, raceVars, adVars, storeVars, starveVars, cmdVars, sc>>

(***************************************************************************)
(* The sorted-set commands of the Redis client the queue manager uses.     *)
(***************************************************************************)
Min(a, b) == IF a < b THEN a ELSE b

\* Redis orders a sorted set by score and, for equal scores, by member.
ZLess(a, b) == a.score < b.score \/ (a.score = b.score /\ a.member < b.member)

RECURSIVE ZDescSeq(_)
ZDescSeq(S) ==
    IF S = {} THEN <<>>
    ELSE LET m == CHOOSE x \in S : \A y \in S : y = x \/ ZLess(y, x)
         IN  <<m>> \o ZDescSeq(S \ {m})

RECURSIVE ZAscSeq(_)
ZAscSeq(S) ==
    IF S = {} THEN <<>>
    ELSE LET m == CHOOSE x \in S : \A y \in S : y = x \/ ZLess(x, y)
         IN  <<m>> \o ZAscSeq(S \ {m})

\* A rank range start..stop (0-based, inclusive; a negative stop counts from
\* the end) of a sequence.
RankRange(seq, start, stop) ==
    LET last == IF stop < 0 THEN Len(seq) + stop ELSE Min(stop, Len(seq) - 1)
    IN  IF start > last THEN <<>> ELSE SubSeq(seq, start + 1, last + 1)

ZRevRangeWithScores(r, key, start, stop) == RankRange(ZDescSeq(r[key]), start, stop)

ZRangeWithScores(r, key, start, stop) == RankRange(ZAscSeq(r[key]), start, stop)

ZHas(r, key, member) == \E z \in r[key] : z.member = member

ZScore(r, key, member) == (CHOOSE z \in r[key] : z.member = member).score

ZAddAppend(r, key, z) == [r EXCEPT ![key] = @ \cup {z}]

ZAdd(r, key, z) ==
    [r EXCEPT ![key] = {y \in @ : y.member # z.member} \cup {z}]

ZRemNothing(r, key, members) == r

ZRem(r, key, members) ==
    [r EXCEPT ![key] = {y \in @ : y.member \notin members}]

ZRemCount(r, key, members) == Cardinality({y \in r[key] : y.member \in members})

ZCard(r, key) == Cardinality(r[key])

\* ZCOUNT key min max, both ends inclusive.
ZCount(r, key, min, max) ==
    Cardinality({z \in r[key] : z.score >= min /\ z.score <= max})

ZCountAtLeast(r, key, score) == Cardinality({z \in r[key] : z.score >= score})

\* ZCOUNT key (score +inf: the lower end exclusive.
ZCountAbove(r, key, score) == Cardinality({z \in r[key] : z.score > score})

(***************************************************************************)
(* RedisQueueManager: pure parts.                                          *)
(***************************************************************************)
\* The ids of the model are small numbers standing for UUID strings; the
\* string hash of getShardKey is a fixed function of the id, taken modulo
\* the shard count.
getShardKey(adID) == adID % ShardCount

calculateScoreNewestFirst(priority, timestamp) == priority * PBand + timestamp

calculateScore(priority, timestamp) == priority * PBand + (TMax - timestamp)

\* int(score / 10000000000): the priority band of a score.
PriorityOfScore(score) == score \div PBand

\* score - float64(int(score/P)) * P: the time component of a score.
TimestampPart(score) == score - PriorityOfScore(score) * PBand

\* UpdatePriority's new score: the new band plus the time component of the
\* current score.
UpdatedScoreResetAge(currentScore, newPriority) == newPriority * PBand + (TMax - now)

UpdatedScoreAddBand(currentScore, newPriority) == newPriority * PBand + currentScore

UpdatedScore(currentScore, newPriority) ==
    newPriority * PBand + TimestampPart(currentScore)

\* queue.go's calculateScore: float64(priority) * 1000000 plus
\* float64(timestamp.Unix()) / 1000000000.  The model counts the score in
\* the unit of the second term, where the first term is a multiple of
\* 10^15; that factor is scaled down like PBand and stays above every time.
ItemScore(priority, timestamp) == priority * ItemBand + timestamp

NewQueueItem(adID, priority, timestamp) ==
    [adID |-> adID, priority |-> priority, timestamp |-> timestamp,
     score |-> ItemScore(priority, timestamp)]

\* The exchange sort of DequeueBatch and GetNext: descending by score.
Swap(a, i, j) == [a EXCEPT ![i] = a[j], ![j] = a[i]]

RECURSIVE SortInner(_, _, _)
SortInner(a, i, j) ==
    IF j > Len(a) THEN a
    ELSE SortInner(IF a[i].score < a[j].score THEN Swap(a, i, j) ELSE a, i, j + 1)

RECURSIVE SortOuter(_, _)
SortOuter(a, i) ==
    IF i > Len(a) THEN a ELSE SortOuter(SortInner(a, i, i + 1), i + 1)

NoSortByScore(a) == a

SortByScoreDesc(a) == SortOuter(a, 1)

\* One shard's answer to the peek of DequeueBatch, each entry with the shard
\* it was read from (shardMapping).
TopOfShard(r, i, count) ==
    LET result == ZRevRangeWithScores(r, i, 0, count - 1)
    IN  [n \in 1..Len(result) |->
            [member |-> result[n].member, score |-> result[n].score, shard |-> i]]

\* The first loop of DequeueBatch: the top `count` entries of every shard,
\* appended shard after shard.
RECURSIVE CollectFrom(_, _, _)
CollectFrom(r, i, count) ==
    IF i >= ShardCount THEN <<>>
    ELSE TopOfShard(r, i, count) \o CollectFrom(r, i + 1, count)

\* The entries DequeueBatch selects from the sorted candidates.
TakeTop(allItems, batchSize) == SubSeq(allItems, 1, Min(batchSize, Len(allItems)))

ItemsOf(selected, t) ==
    [i \in 1..Len(selected) |->
        NewQueueItem(selected[i].member, PriorityOfScore(selected[i].score), t)]

\* toRemove[key]: the selected members that were read from shard `key`.
MembersOf(selected, key) ==
    {selected[i].member : i \in {j \in 1..Len(selected) : selected[j].shard = key}}

\* The last loop of DequeueBatch: one ZRem per shard that has selected members.
RECURSIVE RemoveSelected(_, _, _)
RemoveSelected(r, selected, i) ==
    IF i >= ShardCount THEN r
    ELSE RemoveSelected(ZRem(r, i, MembersOf(selected, i)), selected, i + 1)

\* One iteration of the peek loop of Dequeue.
BestStep(best, result) ==
    IF Len(result) = 0 THEN best
    ELSE IF best = <<>> \/ result[1].score > best[1].score THEN <<result[1]>>
    ELSE best

\* The peek loop of Dequeue: the best top entry over the shards, the first
\* shard winning a tie (strict >).
RECURSIVE BestFrom(_, _, _)
BestFrom(r, i, best) ==
    IF i >= ShardCount THEN best
    ELSE BestFrom(r, i + 1, BestStep(best, TopOfShard(r, i, 1)))

\* The loop of GetPosition: the entries above targetScore, shard by shard.
RECURSIVE CountAboveFrom(_, _, _)
CountAboveFrom(r, i, targetScore) ==
    IF i >= ShardCount THEN 0
    ELSE ZCountAbove(r, i, targetScore) + CountAboveFrom(r, i + 1, targetScore)

\* The loop of GetSize.
RECURSIVE SizeFrom(_, _)
SizeFrom(r, i) == IF i >= ShardCount THEN 0 ELSE ZCard(r, i) + SizeFrom(r, i + 1)

\* GetSizeByPriority: minScore and maxScore of a priority.
BandMin(priority) == priority * PBand

BandMaxShort(priority) == (priority + 1) * PBand - 2

BandMax(priority) == (priority + 1) * PBand - 1

\* The inner loop of GetSizeByPriority.
RECURSIVE BandCountFrom(_, _, _)
BandCountFrom(r, i, priority) ==
    IF i >= ShardCount THEN 0
    ELSE ZCount(r, i, BandMin(priority), BandMax(priority))
            + BandCountFrom(r, i + 1, priority)

\* ApplyAntiStarvation on one entry: the priority it writes back, from the
\* entry's score and the current second.
ActualTimestamp(score) == TMax - TimestampPart(score)

Age(score, t) == t - ActualTimestamp(score)

NeedsBoost(score, t, maxWaitTime) ==
    Age(score, t) > maxWaitTime /\ PriorityOfScore(score) < PriorityHigh

BoostedPriorityNone(score, t) == PriorityOfScore(score)

BoostedPriority(score, t) ==
    LET newPriority == PriorityOfScore(score) + (Age(score, t) \div FiveMinutes)
    IN  IF newPriority > PriorityHigh THEN PriorityHigh ELSE newPriority

BoostedScore(score, t) == BoostedPriority(score, t) * PBand + TimestampPart(score)

Callers == 1..NumCallers
RaceAdIds == 1..NumRaceAds
RacePriorities == {PriorityLow, PriorityHigh}

\* The local variables of a caller: the call and the place in it, the shard
\* index i, the batch size or item index k, the id, priority and score it
\* holds, the entries it read (items) and the shards it still has to remove
\* from (pend).
Idle == [op |-> "idle", pc |-> "idle", i |-> 0, k |-> 0, id |-> 0, prio |-> 0,
         score |-> 0, items |-> <<>>, pend |-> {}]

DefaultConfig == [AntiStarvationEnabled |-> TRUE, MaxWaitTime |-> 0]

(***************************************************************************)
(* The Ad entity (internal/domain/ad): the fields the program's behaviour  *)
(* depends on.  Times are whole seconds; Null stands for a nil *time.Time  *)
(* and for a NULL column.                                                  *)
(***************************************************************************)
Null == -1

AdStatusQueued == "queued"
AdStatusProcessing == "processing"
AdStatusCompleted == "completed"
AdStatusFailed == "failed"

NoErr == "none"
ErrInvalidPriority == "ErrInvalidPriority"
ErrInvalidStatusTransition == "ErrInvalidStatusTransition"
ErrCannotChangePriorityAfterProcessing == "ErrCannotChangePriorityAfterProcessing"
ErrOptimisticLockFailed == "ErrOptimisticLockFailed"

GameFamilies == {"puzzle"}

IsValid(p) == p >= 1 /\ p <= 5

\* Factory.CreateAd, for valid arguments.
CreateAd(id, gameFamily, priority, t) ==
    [id |-> id, gameFamily |-> gameFamily, priority |-> priority,
     status |-> AdStatusQueued, createdAt |-> t,
     processingStartedAt |-> Null, processedAt |-> Null, version |-> 1]

\* An entity method gives the entity after the call and the error returned.
Result(a, err) == [ad |-> a, err |-> err]

StartProcessingUnguarded(a, t) ==
    Result([a EXCEPT !.status = AdStatusProcessing, !.processingStartedAt = t,
                     !.version = @ + 1], NoErr)

StartProcessing(a, t) ==
    IF a.status # AdStatusQueued THEN Result(a, ErrInvalidStatusTransition)
    ELSE Result([a EXCEPT !.status = AdStatusProcessing, !.processingStartedAt = t,
                          !.version = @ + 1], NoErr)

CompleteProcessing(a, t) ==
    IF a.status # AdStatusProcessing THEN Result(a, ErrInvalidStatusTransition)
    ELSE Result([a EXCEPT !.status = AdStatusCompleted, !.processedAt = t,
                          !.version = @ + 1], NoErr)

FailProcessing(a) ==
    IF a.status # AdStatusProcessing THEN Result(a, ErrInvalidStatusTransition)
    ELSE Result([a EXCEPT !.status = AdStatusFailed, !.version = @ + 1], NoErr)

ChangePriorityNoVersion(a, newPriority) ==
    IF ~IsValid(newPriority) THEN Result(a, ErrInvalidPriority)
    ELSE IF a.status = AdStatusProcessing \/ a.status = AdStatusCompleted
    THEN Result(a, ErrCannotChangePriorityAfterProcessing)
    ELSE Result([a EXCEPT !.priority = newPriority], NoErr)

ChangePriority(a, newPriority) ==
    IF ~IsValid(newPriority) THEN Result(a, ErrInvalidPriority)
    ELSE IF a.status = AdStatusProcessing \/ a.status = AdStatusCompleted
    THEN Result(a, ErrCannotChangePriorityAfterProcessing)
    ELSE Result([a EXCEPT !.priority = newPriority, !.version = @ + 1], NoErr)

(***************************************************************************)
(* The repositories.  A row of the ads table has the fields of the entity; *)
(* toAdEntity and ReconstructAd copy them one by one.                      *)
(***************************************************************************)
NoRow == [id |-> 0]

EmptyStore == [a \in AdIds |-> NoRow]

SaveResult(st, err) == [store |-> st, err |-> err]

\* PostgresAdRepository.Save: INSERT ... ON CONFLICT (ad_id) DO UPDATE ...
\* WHERE ads.version = $9 - 1.  The INSERT names neither processing_started_at
\* nor processed_at, so the proposed row (EXCLUDED) has NULL in both and the
\* update writes NULL; created_at is not among the columns updated.
PostgresSaveUnconditional(st, e) ==
    SaveResult([st EXCEPT ![e.id] = [e EXCEPT !.processingStartedAt = Null,
                                              !.processedAt = Null]], NoErr)

PostgresSave(st, e) ==
    LET proposed == [e EXCEPT !.processingStartedAt = Null, !.processedAt = Null]
    IN  IF st[e.id] = NoRow THEN SaveResult([st EXCEPT ![e.id] = proposed], NoErr)
        ELSE IF st[e.id].version = e.version - 1
        THEN SaveResult([st EXCEPT ![e.id] =
                            [proposed EXCEPT !.createdAt = st[e.id].createdAt]], NoErr)
        ELSE SaveResult(st, ErrOptimisticLockFailed)

\* MemoryAdRepository.Save: r.ads[id] = adEntity.
MemorySave(st, e) == SaveResult([st EXCEPT ![e.id] = e], NoErr)

SeqToSet(q) == {q[n] : n \in 1..Len(q)}

\* PostgresAdRepository.UpdatePriorityBatch, one transaction: UPDATE ads SET
\* priority = $1, version = version + 1 WHERE ad_id = $2 AND status = 'queued'
\* for every id.
UpdatePriorityBatchAnyStatus(st, ids, newPriority) ==
    [a \in AdIds |->
        IF a \in SeqToSet(ids) /\ st[a] # NoRow
        THEN [st[a] EXCEPT !.priority = newPriority, !.version = @ + 1]
        ELSE st[a]]

UpdatePriorityBatch(st, ids, newPriority) ==
    [a \in AdIds |->
        IF a \in SeqToSet(ids) /\ st[a] # NoRow /\ st[a].status = AdStatusQueued
        THEN [st[a] EXCEPT !.priority = newPriority, !.version = @ + 1]
        ELSE st[a]]

\* MemoryAdRepository.UpdatePriorityBatch: ChangePriority on the stored
\* entity of every id that exists, in the order of ids; the first error ends
\* the loop and what was changed before stays changed.
RECURSIVE MemoryUpdatePriorityBatch(_, _, _)
MemoryUpdatePriorityBatch(st, ids, newPriority) ==
    IF ids = <<>> THEN SaveResult(st, NoErr)
    ELSE IF st[Head(ids)] = NoRow
    THEN MemoryUpdatePriorityBatch(st, Tail(ids), newPriority)
    ELSE LET r == ChangePriority(st[Head(ids)], newPriority)
         IN  IF r.err # NoErr THEN SaveResult(st, r.err)
             ELSE MemoryUpdatePriorityBatch([st EXCEPT ![Head(ids)] = r.ad],
                                            Tail(ids), newPriority)

ErrAdNotFound == "ad not found"

\* PostgresAdRepository.UpdateStatus: UPDATE ads SET status = $1, version =
\* version + 1 WHERE ad_id = $2 AND version = $3; no row affected is
\* ErrOptimisticLockFailed.
PostgresUpdateStatus(st, id, status, version) ==
    IF st[id] # NoRow /\ st[id].version = version
    THEN SaveResult([st EXCEPT ![id] = [@ EXCEPT !.status = status, !.version = @ + 1]],
                    NoErr)
    ELSE SaveResult(st, ErrOptimisticLockFailed)

\* MemoryAdRepository.UpdateStatus: the entity's method for the status asked
\* for, on the stored entity; the version argument is not used, and a status
\* of queued does nothing and returns nil.
MemoryUpdateStatus(st, id, status, t) ==
    IF st[id] = NoRow THEN SaveResult(st, ErrAdNotFound)
    ELSE LET r == CASE status = AdStatusProcessing -> StartProcessing(st[id], t)
                    [] status = AdStatusCompleted -> CompleteProcessing(st[id], t)
                    [] status = AdStatusFailed -> FailProcessing(st[id])
                    [] OTHER -> Result(st[id], NoErr)
         IN  SaveResult([st EXCEPT ![id] = r.ad], r.err)

\* FindByGameFamily (ORDER BY created_at ASC) filtered by the service to the
\* queued ads: their ids, oldest first.
RECURSIVE OldestFirst(_, _)
OldestFirst(st, ids) ==
    IF ids = {} THEN <<>>
    ELSE LET m == CHOOSE x \in ids : \A y \in ids :
                      \/ st[x].createdAt < st[y].createdAt
                      \/ (st[x].createdAt = st[y].createdAt /\ x <= y)
         IN  <<m>> \o OldestFirst(st, ids \ {m})

QueuedOfFamily(st, gameFamily) ==
    OldestFirst(st, {a \in AdIds : /\ st[a] # NoRow
                                   /\ st[a].gameFamily = gameFamily
                                   /\ st[a].status = AdStatusQueued})

(***************************************************************************)
(* The Command entity (internal/domain/command) and the parser and         *)
(* executor of internal/infrastructure/external.  The parameters map is a  *)
(* record of the keys the intents use, with has the set of keys present.   *)
(***************************************************************************)
CommandStatusPending == "pending"
CommandStatusExecuting == "executing"
CommandStatusExecuted == "executed"
CommandStatusFailed == "failed"
CommandStatusInvalid == "invalid"

NoParameters ==
    [has |-> {}, priority |-> 0, gameFamily |-> "", minutes |-> 0, count |-> 0,
     seconds |-> 0]

NoCommand ==
    [intent |-> "none", parameters |-> NoParameters, status |-> "none", result |-> Null,
     error |-> "", createdAt |-> Null, executedAt |-> Null]

NewCommand(intent, parameters, t) ==
    [intent |-> intent, parameters |-> parameters, status |-> CommandStatusPending,
     result |-> Null, error |-> "", createdAt |-> t, executedAt |-> Null]

StartExecution(c) == [c EXCEPT !.status = CommandStatusExecuting]

CompleteExecutionNoStatus(c, result, t) == [c EXCEPT !.result = result, !.executedAt = t]

CompleteExecution(c, result, t) ==
    [c EXCEPT !.status = CommandStatusExecuted, !.result = result, !.executedAt = t]

FailExecution(c, errorMsg, t) ==
    [c EXCEPT !.status = CommandStatusFailed, !.error = errorMsg, !.executedAt = t]

MarkInvalid(c, reason) == [c EXCEPT !.status = CommandStatusInvalid, !.error = reason]

Got(value) == [value |-> value, exists |-> TRUE]

GetStringParameter(c, key) ==
    IF key \in c.parameters.has THEN Got(c.parameters[key])
    ELSE [value |-> "", exists |-> FALSE]

GetIntParameter(c, key) ==
    IF key \in c.parameters.has THEN Got(c.parameters[key])
    ELSE [value |-> 0, exists |-> FALSE]

GetPriorityParameter(c, key) ==
    LET i == GetIntParameter(c, key)
    IN  IF i.exists /\ IsValid(i.value) THEN Got(i.value)
        ELSE [value |-> 0, exists |-> FALSE]

\* MockCommandParser.ValidateCommand: the error it returns, or NoErr.
ValidateCommand(c) ==
    CASE c.intent = "change_priority_by_game_family" ->
            IF ~GetPriorityParameter(c, "priority").exists
            THEN "missing or invalid priority parameter"
            ELSE IF ~GetStringParameter(c, "gameFamily").exists
            THEN "missing gameFamily parameter"
            ELSE NoErr
      [] c.intent = "change_priority_by_age" ->
            IF ~GetPriorityParameter(c, "priority").exists
            THEN "missing or invalid priority parameter"
            ELSE IF ~GetIntParameter(c, "minutes").exists
            THEN "missing minutes parameter"
            ELSE NoErr
      [] c.intent = "show_next_ads" ->
            IF ~GetIntParameter(c, "count").exists \/ GetIntParameter(c, "count").value <= 0
            THEN "missing or invalid count parameter"
            ELSE NoErr
      [] c.intent = "waiting_ads" ->
            IF ~GetIntParameter(c, "minutes").exists
            THEN "missing minutes parameter"
            ELSE NoErr
      [] c.intent = "set_max_wait_time" ->
            IF ~GetIntParameter(c, "seconds").exists
            THEN "missing seconds parameter"
            ELSE NoErr
      [] OTHER -> NoErr

supportedIntents ==
    {"change_priority_by_game_family", "change_priority_by_age", "show_next_ads",
     "queue_distribution", "waiting_ads", "enable_starvation_mode", "set_max_wait_time"}

CanExecute(c) == c.intent \in supportedIntents

\* The texts of the mock parser's patterns, with the numbers and the family
\* they carry; a number is a run of digits.
Text(pattern, n1, n2, family) == [pattern |-> pattern, n1 |-> n1, n2 |-> n2, family |-> family]

ParseError(msg) == [cmd |-> NoCommand, err |-> msg]

Parsed(intent, parameters, t) == [cmd |-> NewCommand(intent, parameters, t), err |-> NoErr]

\* MockCommandParser.Parse.
MockParse(text, t) ==
    CASE text.pattern = "change priority to N for all ads in the F family" ->
            IF text.n1 < 1 \/ text.n1 > 5 THEN ParseError("invalid priority value")
            ELSE Parsed("change_priority_by_game_family",
                        [NoParameters EXCEPT !.has = {"priority", "gameFamily"},
                                             !.priority = text.n1,
                                             !.gameFamily = text.family], t)
      [] text.pattern = "set priority to N for ads older than M minutes" ->
            IF text.n1 < 1 \/ text.n1 > 5 THEN ParseError("invalid priority value")
            ELSE Parsed("change_priority_by_age",
                        [NoParameters EXCEPT !.has = {"priority", "minutes"},
                                             !.priority = text.n1,
                                             !.minutes = text.n2], t)
      [] text.pattern = "show the next N ads to be processed" ->
            IF text.n1 <= 0 THEN ParseError("invalid count value")
            ELSE Parsed("show_next_ads",
                        [NoParameters EXCEPT !.has = {"count"}, !.count = text.n1], t)
      [] text.pattern = "what's the current queue distribution by priority" ->
            Parsed("queue_distribution", NoParameters, t)
      [] text.pattern = "list all ads waiting longer than N minutes" ->
            Parsed("waiting_ads",
                   [NoParameters EXCEPT !.has = {"minutes"}, !.minutes = text.n1], t)
      [] text.pattern = "enable starvation mode" ->
            Parsed("enable_starvation_mode", NoParameters, t)
      [] text.pattern = "set maximum wait time to N seconds" ->
            Parsed("set_max_wait_time",
                   [NoParameters EXCEPT !.has = {"seconds"}, !.seconds = text.n1], t)
      [] OTHER -> ParseError("unable to parse command")

(***************************************************************************)
(* The state after construction: an empty queue, an empty ads table, no    *)
(* call in progress, every channel empty.                                  *)
(***************************************************************************)
\* ret.seq alternates with every call, so that a step that makes a call is
\* told from one that does not; arg is the call's id or batch size and prio
\* its priority argument.
NoRet == [op |-> "none", seq |-> 0, arg |-> 0, prio |-> 0, out |-> <<>>, err |-> "none"]

NoCall == [op |-> "none", err |-> NoErr]

NoSave == [op |-> "none", id |-> 0, pre |-> NoRow, item |-> NoRow, post |-> NoRow,
           err |-> NoErr]

StoreCallers == 1..NumCallers
StoreAdIds == 1..NumStoreAds
SysAdIds == 1..NumSysAds
LiveAdIds == 1..NumLiveAds
\* p.workers
Workers == DOMAIN chans

\* A caller of a repository: the entity it holds (ent, or the stored object
\* itself when alias is set), the version it loaded, the number of changes it
\* made since and whether a Save of it succeeded since.
NoClient == [id |-> 0, ent |-> NoRow, alias |-> FALSE, loaded |-> 0, muts |-> 0,
             ok |-> FALSE]

NotCreated == [pc |-> "no", ent |-> NoRow]

DispIdle == [pc |-> "tick", i |-> 0, items |-> <<>>, pend |-> {}]

WorkIdle == [pc |-> "idle", id |-> 0, ent |-> NoRow]

RwIdle == [pc |-> "idle", prio |-> 0, ids |-> <<>>, n |-> 0, score |-> 0,
           updatedCount |-> 0, count |-> 0, sel |-> EmptyStore, skipped |-> {}]

DmIdle == [pc |-> "tick", i |-> 0, items |-> <<>>, n |-> 0]

InitQueueVars ==
    /\ redis = [k \in ShardKeys |-> {}]
    /\ now = 0
    /\ config = DefaultConfig
    /\ ret = NoRet
    /\ enqAt = [a \in AdIds |-> 0]

InitRaceVars ==
    /\ call = [c \in Callers |-> Idle]
    /\ returned = [a \in AdIds |-> 0]
    /\ enqueues = [a \in AdIds |-> 0]
    /\ gone = {}

InitAdVars ==
    /\ ad = NoRow
    /\ prevAd = NoRow
    /\ adCall = NoCall

InitStoreVars ==
    /\ store = EmptyStore
    /\ repo = "postgres"
    /\ client = [c \in StoreCallers |-> NoClient]
    /\ saveLog = NoSave

InitSysVars ==
    /\ created = [a \in AdIds |-> NotCreated]
    /\ disp = DispIdle
    /\ chans = [w \in 1..WorkerCount |-> <<>>]
    /\ work = [w \in 1..WorkerCount |-> WorkIdle]
    /\ rw = RwIdle
    /\ dm = DmIdle
    /\ ctxDone = FALSE
    /\ dropped = {}
    /\ aborted = {}

InitStarveVars == lastPrio = [a \in AdIds |-> 0]

ExecIdle == [pc |-> "idle", parser |-> "mock", status |-> "", error |-> "", trail |-> <<>>]

CommandIds == 1..MaxCommands

NoLookup == [op |-> "none", arg |-> 0, status |-> "", result |-> Null, error |-> "",
             err |-> NoErr]

InitLookupVars ==
    /\ commands = [id \in CommandIds |-> NoCommand]
    /\ lookup = NoLookup

NoScores == [pc |-> "none"]

InitScoreVars == sc = NoScores

\* The processor is not started.
InitPoolVars ==
    /\ stopCall = "no"
    /\ wg = {}

InitCmdVars ==
    /\ cmd = NoCommand
    /\ exec = ExecIdle
    /\ InitLookupVars

(***************************************************************************)
(* SpecQ: the queue manager's operations, one call at a time.              *)
(***************************************************************************)
Ret(op, arg, prio, out, err) ==
    [op |-> op, seq |-> 1 - ret.seq, arg |-> arg, prio |-> prio, out |-> out, err |-> err]

\* The history variable keeps an enqueue second only for the ids that are in
\* the queue or were returned by the last call.
KeepEnqAt(e, r, out) ==
    [a \in AdIds |->
        IF (\E k \in ShardKeys : ZHas(r, k, a)) \/ (\E i \in 1..Len(out) : out[i].adID = a)
        THEN e[a] ELSE 0]

InitQ ==
    /\ InitQueueVars
    /\ InitRaceVars
    /\ InitAdVars
    /\ InitStoreVars
    /\ InitSysVars
    /\ InitStarveVars
    /\ InitCmdVars
    /\ InitPoolVars
    /\ InitScoreVars

Tick ==
    /\ now < MaxNow
    /\ now' = now + 1
    /\ UNCHANGED <<redis, ret, enqAt>>
    /\ UNCHANGED restQ

Enqueue(adID, priority) ==
    /\ redis' = ZAdd(redis, getShardKey(adID),
                     [member |-> adID, score |-> calculateScore(priority, now)])
    /\ ret' = Ret("Enqueue", adID, priority, <<>>, "none")
    /\ enqAt' = KeepEnqAt([enqAt EXCEPT ![adID] = now], redis', <<>>)
    /\ UNCHANGED <<now, restQ>>

Dequeue ==
    LET best == BestFrom(redis, 0, <<>>)
    IN  /\ IF best = <<>>
           THEN /\ redis' = redis
                /\ ret' = Ret("Dequeue", 1, 0, <<>>, "none")
           ELSE /\ redis' = ZRem(redis, best[1].shard, {best[1].member})
                /\ ret' = Ret("Dequeue", 1, 0, ItemsOf(best, now), "none")
        /\ enqAt' = KeepEnqAt(enqAt, redis', ret'.out)
        /\ UNCHANGED <<now, restQ>>

DequeueBatch(batchSize) ==
    LET allItems == SortByScoreDesc(CollectFrom(redis, 0, batchSize))
        selected == TakeTop(allItems, batchSize)
    IN  /\ redis' = RemoveSelected(redis, selected, 0)
        /\ ret' = Ret("DequeueBatch", batchSize, 0, ItemsOf(selected, now), "none")
        /\ enqAt' = KeepEnqAt(enqAt, redis', ret'.out)
        /\ UNCHANGED <<now, restQ>>

UpdatePriorityUpsert(adID, newPriority) ==
    LET key == getShardKey(adID)
        currentScore == IF ZHas(redis, key, adID) THEN ZScore(redis, key, adID) ELSE 0
    IN  /\ redis' = ZAdd(redis, key,
                [member |-> adID, score |-> UpdatedScore(currentScore, newPriority)])
        /\ ret' = Ret("UpdatePriority", adID, newPriority, <<>>, "none")
        /\ enqAt' = KeepEnqAt(enqAt, redis', <<>>)
        /\ UNCHANGED <<now, restQ>>

UpdatePriority(adID, newPriority) ==
    LET key == getShardKey(adID)
    IN  /\ IF ~ZHas(redis, key, adID)
           THEN /\ redis' = redis
                /\ ret' = Ret("UpdatePriority", adID, newPriority, <<>>, "not_in_queue")
           ELSE /\ redis' = ZAdd(redis, key,
                        [member |-> adID,
                         score |-> UpdatedScore(ZScore(redis, key, adID), newPriority)])
                /\ ret' = Ret("UpdatePriority", adID, newPriority, <<>>, "none")
        /\ enqAt' = KeepEnqAt(enqAt, redis', <<>>)
        /\ UNCHANGED <<now, restQ>>

Remove(adID) ==
    LET key == getShardKey(adID)
    IN  /\ redis' = ZRem(redis, key, {adID})
        /\ ret' = Ret("Remove", adID, 0, <<>>,
                      IF ZRemCount(redis, key, {adID}) = 0 THEN "not_in_queue" ELSE "none")
        /\ enqAt' = KeepEnqAt(enqAt, redis', <<>>)
        /\ UNCHANGED <<now, restQ>>

\* GetPosition: out holds the position, or -1 with the not-in-queue error.
GetPosition(adID) ==
    LET key == getShardKey(adID)
    IN  /\ ret' = IF ~ZHas(redis, key, adID)
                  THEN Ret("GetPosition", adID, 0, <<-1>>, "not_in_queue")
                  ELSE Ret("GetPosition", adID, 0,
                           <<CountAboveFrom(redis, 0, ZScore(redis, key, adID)) + 1>>,
                           "none")
        /\ enqAt' = KeepEnqAt(enqAt, redis, <<>>)
        /\ UNCHANGED <<redis, now, restQ>>

\* GetSize: out holds the total.
GetSize ==
    /\ ret' = Ret("GetSize", 0, 0, <<SizeFrom(redis, 0)>>, "none")
    /\ enqAt' = KeepEnqAt(enqAt, redis, <<>>)
    /\ UNCHANGED <<redis, now, restQ>>

\* GetSizeByPriority: out holds the count of every priority 1..5.
GetSizeByPriority ==
    /\ ret' = Ret("GetSizeByPriority", 0, 0,
                  [priority \in 1..5 |-> BandCountFrom(redis, 0, priority)], "none")
    /\ enqAt' = KeepEnqAt(enqAt, redis, <<>>)
    /\ UNCHANGED <<redis, now, restQ>>

NextQ ==
    \/ Tick
    \/ \E a \in AdIds, p \in Priorities : Enqueue(a, p)
    \/ Dequeue
    \/ \E k \in 0..MaxBatch : DequeueBatch(k)
    \/ \E a \in AdIds, p \in Priorities : UpdatePriority(a, p)
    \/ \E a \in AdIds : Remove(a)
    \/ \E a \in AdIds : GetPosition(a)
    \/ GetSize
    \/ GetSizeByPriority

SpecQ == InitQ /\ [][NextQ]_vars

(***************************************************************************)
(* Claims checked under SpecQ.                                             *)
(***************************************************************************)
AllEntries(r) == UNION {r[k] : k \in ShardKeys}

QueuedIds(r) == {z.member : z \in AllEntries(r)}

\* (p1, t1) is dispatched strictly before (p2, t2): a higher priority, or the
\* same priority and an earlier enqueue second.
Ahead(p1, t1, p2, t2) == p1 > p2 \/ (p1 = p2 /\ t1 < t2)

\* What a dequeue of up to k entries must have done, from the queue before
\* the call to the queue after it and the entries returned.
DequeuePost(k) ==
    LET S == AllEntries(redis)
        out == ret'.out
        ids == {out[i].adID : i \in 1..Len(out)}
    IN  /\ Len(out) = Min(k, Cardinality(S))
        /\ Cardinality(ids) = Len(out)
        /\ \A i \in 1..Len(out) :
              \E z \in S : /\ z.member = out[i].adID
                           /\ out[i].priority = PriorityOfScore(z.score)
        /\ \A i, j \in 1..Len(out) :
              i < j => ~Ahead(out[j].priority, enqAt[out[j].adID],
                              out[i].priority, enqAt[out[i].adID])
        /\ \A z \in S : \A i \in 1..Len(out) :
              z.member \notin ids =>
                  ~Ahead(PriorityOfScore(z.score), enqAt[z.member],
                         out[i].priority, enqAt[out[i].adID])
        /\ \A key \in ShardKeys : redis'[key] = {z \in redis[key] : z.member \notin ids}

\* C1: called with nothing running beside it, Dequeue removes and returns the
\* entry that is ahead of all others over all shards, and DequeueBatch(k)
\* removes and returns the min(k, size) entries that are ahead of the rest,
\* in dispatch order: higher priority first and, within a priority, the
\* earlier enqueue second first.
C1_DequeueOrder ==
    [][(ret'.seq # ret.seq /\ ret'.op = "Dequeue" => DequeuePost(1))
       /\ (ret'.seq # ret.seq /\ ret'.op = "DequeueBatch" => DequeuePost(ret'.arg))]_vars

\* A batch of three came back that holds two entries of one priority from
\* different shards, enqueued at different seconds, and an entry of another
\* priority.
C1_Witness ==
    /\ ret.op = "DequeueBatch"
    /\ Len(ret.out) = 3
    /\ \E i, j, l \in 1..3 :
          /\ i < j
          /\ ret.out[i].priority = ret.out[j].priority
          /\ enqAt[ret.out[i].adID] < enqAt[ret.out[j].adID]
          /\ getShardKey(ret.out[i].adID) # getShardKey(ret.out[j].adID)
          /\ ret.out[l].priority # ret.out[i].priority

\* C3: UpdatePriority on a queued id leaves the entry with the score
\* p * P + (the time component of its enqueue second), and every entry of
\* the queue carries the time component of the second it was enqueued at,
\* whatever priority changes it went through: the dispatch order of C1
\* never sees a priority change as a new enqueue.
C3_UpdateKeepsAge ==
    /\ \A z \in AllEntries(redis) : TimestampPart(z.score) = TMax - enqAt[z.member]
    /\ (ret.op = "UpdatePriority" /\ ret.err = "none") =>
          /\ ZHas(redis, getShardKey(ret.arg), ret.arg)
          /\ ZScore(redis, getShardKey(ret.arg), ret.arg)
                = ret.prio * PBand + (TMax - enqAt[ret.arg])

\* An entry enqueued earlier was moved, at a later second, into a band that
\* holds another entry with a different enqueue second.
C3_Witness ==
    /\ ret.op = "UpdatePriority"
    /\ ret.err = "none"
    /\ now > enqAt[ret.arg]
    /\ \E z \in AllEntries(redis) :
          /\ z.member # ret.arg
          /\ PriorityOfScore(z.score) = ret.prio
          /\ enqAt[z.member] > enqAt[ret.arg]

\* C22: called with nothing running beside it, GetPosition of a queued id
\* returns k such that exactly k - 1 entries over all shards have a score
\* strictly greater than the score of the id.
C22_PositionCountsGreater ==
    (ret.op = "GetPosition" /\ ret.err = "none") =>
        \E z \in AllEntries(redis) :
            /\ z.member = ret.arg
            /\ Cardinality({y \in AllEntries(redis) : y.score > z.score}) = ret.out[1] - 1

\* The position 2 came back for an id that has an entry with the same score
\* and an entry with a greater score beside it, the greater one in another
\* shard.
C22_Witness ==
    /\ ret.op = "GetPosition"
    /\ ret.out = <<2>>
    /\ \E z, y, x \in AllEntries(redis) :
          /\ z.member = ret.arg
          /\ y.member # z.member /\ y.score = z.score
          /\ x.score > z.score
          /\ getShardKey(x.member) # getShardKey(z.member)

InBand(score, p) == score >= p * PBand /\ score < (p + 1) * PBand

\* C23: GetSizeByPriority gives for every priority p of 1..5 the number of
\* entries over all shards whose score is in [p * P, (p + 1) * P); every
\* entry of the queue is in exactly one of the five bands, and the five
\* counts add up to what GetSize gives, the number of entries.
C23_BandsPartitionSize ==
    /\ \A z \in AllEntries(redis) :
          Cardinality({p \in 1..5 : InBand(z.score, p)}) = 1
    /\ ret.op = "GetSize" => ret.out = <<Cardinality(AllEntries(redis))>>
    /\ ret.op = "GetSizeByPriority" =>
          /\ \A p \in 1..5 :
                ret.out[p] = Cardinality({z \in AllEntries(redis) : InBand(z.score, p)})
          /\ ret.out[1] + ret.out[2] + ret.out[3] + ret.out[4] + ret.out[5]
                = Cardinality(AllEntries(redis))

\* Counts came back for a queue that has entries in both shards and in two
\* bands, one of them at the top of its band (enqueued at second 0) and one
\* at priority 5.
C23_Witness ==
    /\ ret.op = "GetSizeByPriority"
    /\ ret.out[5] >= 1
    /\ ret.out[1] + ret.out[3] >= 2
    /\ \E z \in AllEntries(redis) : z.score % PBand = TMax
    /\ \A k \in ShardKeys : redis[k] # {}

\* C26: UpdatePriority and Remove of an id that is not in the queue return
\* the not-in-queue error and leave every shard as it was.
C26_AbsentIdIsRefused ==
    [][(/\ ret'.seq # ret.seq
        /\ ret'.op \in {"UpdatePriority", "Remove"}
        /\ ret'.arg \notin QueuedIds(redis))
       => (ret'.err = "not_in_queue" /\ redis' = redis)]_vars

\* UpdatePriority of an absent id was refused while other ids were queued.
C26_Witness ==
    /\ ret.op = "UpdatePriority"
    /\ ret.err = "not_in_queue"
    /\ ret.arg \notin QueuedIds(redis)
    /\ AllEntries(redis) # {}

(***************************************************************************)
(* SpecRace: several callers of one queue manager.  Every Redis command is *)
(* atomic and is one step; a call that issues several commands can be      *)
(* interleaved with other callers between any two of them.  A caller's     *)
(* local computation belongs to the step of the command that follows it.   *)
(***************************************************************************)
InitRace ==
    /\ InitQueueVars
    /\ InitRaceVars
    /\ InitAdVars
    /\ InitStoreVars
    /\ InitSysVars
    /\ InitStarveVars
    /\ InitCmdVars
    /\ InitPoolVars
    /\ InitScoreVars

Present(r, members) == {m \in members : \E k \in ShardKeys : ZHas(r, k, m)}

CountReturn(cnt, ids) == [a \in AdIds |-> IF a \in ids THEN Min(cnt[a] + 1, 2) ELSE cnt[a]]

\* Enqueue: a single ZAdd.
RaceEnqueue(adID, priority) ==
    /\ enqueues[adID] < MaxEnqueues
    /\ redis' = ZAdd(redis, getShardKey(adID),
                     [member |-> adID, score |-> calculateScore(priority, now)])
    /\ enqueues' = [enqueues EXCEPT ![adID] = @ + 1]
    /\ gone' = gone \ {adID}
    /\ UNCHANGED <<now, config, call, returned, restRace>>

\* Remove: a single ZRem.
RaceRemove(adID) ==
    /\ redis' = ZRem(redis, getShardKey(adID), {adID})
    /\ gone' = gone \cup Present(redis, {adID})
    /\ UNCHANGED <<now, config, call, returned, enqueues, restRace>>

\* Dequeue, the peek of shard i: ZRevRangeWithScores(shard, 0, 0).  After the
\* last shard the call returns nil when no shard had an entry.
DequeuePeek(c) ==
    /\ \/ call[c].op = "idle"
       \/ call[c].op = "Dequeue" /\ call[c].pc = "peek"
    /\ LET i == call[c].i
           best == BestStep(call[c].items, TopOfShard(redis, i, 1))
       IN  call' = [call EXCEPT ![c] =
                IF i + 1 < ShardCount
                THEN [Idle EXCEPT !.op = "Dequeue", !.pc = "peek", !.i = i + 1, !.items = best]
                ELSE IF best = <<>> THEN Idle
                ELSE [Idle EXCEPT !.op = "Dequeue", !.pc = "rem", !.items = best]]
    /\ UNCHANGED <<redis, now, config, returned, enqueues, gone, restRace>>

\* Dequeue, the ZRem of the best entry; its result is not looked at and the
\* entry is returned.
DequeueZRem(c) ==
    /\ call[c].op = "Dequeue" /\ call[c].pc = "rem"
    /\ LET best == call[c].items[1]
       IN  /\ redis' = ZRem(redis, best.shard, {best.member})
           /\ gone' = gone \cup Present(redis, {best.member})
           /\ returned' = CountReturn(returned, {best.member})
    /\ call' = [call EXCEPT ![c] = Idle]
    /\ UNCHANGED <<now, config, enqueues, restRace>>

\* DequeueBatch, the peek of shard i; after the last shard the candidates are
\* sorted and the top batchSize selected.
BatchPeek(c, batchSize) ==
    /\ \/ call[c].op = "idle"
       \/ call[c].op = "DequeueBatch" /\ call[c].pc = "peek" /\ call[c].k = batchSize
    /\ LET i == call[c].i
           allItems == call[c].items \o TopOfShard(redis, i, batchSize)
           selected == TakeTop(SortByScoreDesc(allItems), batchSize)
           toRemove == {key \in ShardKeys : MembersOf(selected, key) # {}}
       IN  call' = [call EXCEPT ![c] =
                IF i + 1 < ShardCount
                THEN [Idle EXCEPT !.op = "DequeueBatch", !.pc = "peek", !.i = i + 1,
                                  !.k = batchSize, !.items = allItems]
                ELSE IF toRemove = {} THEN Idle
                ELSE [Idle EXCEPT !.op = "DequeueBatch", !.pc = "rem", !.k = batchSize,
                                  !.items = selected, !.pend = toRemove]]
    /\ UNCHANGED <<redis, now, config, returned, enqueues, gone, restRace>>

\* DequeueBatch, the ZRem for one shard of toRemove (a Go map: any order);
\* its result is not looked at.  After the last one the selected entries are
\* returned.
BatchZRem(c, key) ==
    /\ call[c].op = "DequeueBatch" /\ call[c].pc = "rem"
    /\ key \in call[c].pend
    /\ LET selected == call[c].items
           members == MembersOf(selected, key)
       IN  /\ redis' = ZRem(redis, key, members)
           /\ gone' = gone \cup {m \in members : ZHas(redis, key, m)}
           /\ IF call[c].pend = {key}
              THEN /\ returned' = CountReturn(returned,
                                     {selected[n].member : n \in 1..Len(selected)})
                   /\ call' = [call EXCEPT ![c] = Idle]
              ELSE /\ returned' = returned
                   /\ call' = [call EXCEPT ![c].pend = @ \ {key}]
    /\ UNCHANGED <<now, config, enqueues, restRace>>

\* UpdatePriority, the ZScore; redis.Nil returns the not-in-queue error.
UpdateZScore(c, adID, newPriority) ==
    /\ call[c].op = "idle"
    /\ LET key == getShardKey(adID)
       IN  call' = [call EXCEPT ![c] =
                IF ~ZHas(redis, key, adID) THEN Idle
                ELSE [Idle EXCEPT !.op = "UpdatePriority", !.pc = "zadd", !.id = adID,
                                  !.prio = newPriority,
                                  !.score = ZScore(redis, key, adID)]]
    /\ UNCHANGED <<redis, now, config, returned, enqueues, gone, restRace>>

\* UpdatePriority, the ZAdd of the new score.
UpdateZAdd(c) ==
    /\ call[c].op = "UpdatePriority" /\ call[c].pc = "zadd"
    /\ redis' = ZAdd(redis, getShardKey(call[c].id),
                     [member |-> call[c].id,
                      score |-> UpdatedScore(call[c].score, call[c].prio)])
    /\ call' = [call EXCEPT ![c] = Idle]
    /\ UNCHANGED <<now, config, returned, enqueues, gone, restRace>>

NextRace ==
    \/ \E a \in RaceAdIds, p \in RacePriorities : RaceEnqueue(a, p)
    \/ \E a \in RaceAdIds : RaceRemove(a)
    \/ \E c \in Callers : DequeuePeek(c)
    \/ \E c \in Callers : DequeueZRem(c)
    \/ \E c \in Callers, k \in 1..NumRaceAds : BatchPeek(c, k)
    \/ \E c \in Callers, key \in ShardKeys : BatchZRem(c, key)
    \/ \E c \in Callers, a \in RaceAdIds, p \in RacePriorities : UpdateZScore(c, a, p)
    \/ \E c \in Callers : UpdateZAdd(c)

SpecRace == InitRace /\ [][NextRace]_vars

(***************************************************************************)
(* Claims checked under SpecRace.                                          *)
(***************************************************************************)
\* C2: an entry that was enqueued once is returned by at most one dequeue,
\* whatever the interleaving of the callers.
C2_AtMostOneWinner ==
    \A a \in RaceAdIds : enqueues[a] = 1 => returned[a] <= 1

\* C6: the queue holds at most one entry per id, and an id that a dequeue or
\* a remove took out is not in the queue unless it was enqueued again.
C6_RemovedStaysOut ==
    /\ \A a \in RaceAdIds :
          Cardinality({z \in AllEntries(redis) : z.member = a}) <= 1
    /\ \A a \in gone : a \notin QueuedIds(redis)

(***************************************************************************)
(* SpecAd: the methods of one Ad entity, called in any order.              *)
(***************************************************************************)
InitAd ==
    /\ InitQueueVars
    /\ InitRaceVars
    /\ InitStoreVars
    /\ InitSysVars
    /\ InitStarveVars
    /\ InitCmdVars
    /\ InitPoolVars
    /\ InitScoreVars
    /\ \E g \in GameFamilies, p \in 1..5 : ad = CreateAd(1, g, p, 0)
    /\ prevAd = ad
    /\ adCall = NoCall

AdCall(op, r) ==
    /\ ad' = r.ad
    /\ prevAd' = ad
    /\ adCall' = [op |-> op, err |-> r.err]
    /\ UNCHANGED <<now, restAd>>

AdStartProcessing == AdCall("StartProcessing", StartProcessing(ad, now))

AdCompleteProcessing == AdCall("CompleteProcessing", CompleteProcessing(ad, now))

AdFailProcessing == AdCall("FailProcessing", FailProcessing(ad))

AdChangePriority(newPriority) ==
    /\ ad.version < MaxVersion
    /\ AdCall("ChangePriority", ChangePriority(ad, newPriority))

NextAd ==
    \/ Tick
    \/ AdStartProcessing
    \/ AdCompleteProcessing
    \/ AdFailProcessing
    \/ \E p \in 0..6 : AdChangePriority(p)

SpecAd == InitAd /\ [][NextAd]_vars

(***************************************************************************)
(* Claims checked under SpecAd.                                            *)
(***************************************************************************)
StatusEdges ==
    {<<AdStatusQueued, AdStatusProcessing>>,
     <<AdStatusProcessing, AdStatusCompleted>>,
     <<AdStatusProcessing, AdStatusFailed>>}

TransitionCalls == {"StartProcessing", "CompleteProcessing", "FailProcessing"}

TargetStatus(op) ==
    CASE op = "StartProcessing" -> AdStatusProcessing
      [] op = "CompleteProcessing" -> AdStatusCompleted
      [] op = "FailProcessing" -> AdStatusFailed

\* C4: whatever method is called, the status of an ad changes only along
\* queued -> processing, processing -> completed or processing -> failed; a
\* transition call along one of these edges succeeds, and one made from any
\* other status returns ErrInvalidStatusTransition and leaves the status,
\* the three timestamps and the version as they were.
C4_StatusTransitions ==
    /\ ad.status # prevAd.status => <<prevAd.status, ad.status>> \in StatusEdges
    /\ adCall.op \in TransitionCalls =>
          IF <<prevAd.status, TargetStatus(adCall.op)>> \in StatusEdges
          THEN /\ adCall.err = NoErr
               /\ ad.status = TargetStatus(adCall.op)
          ELSE /\ adCall.err = ErrInvalidStatusTransition
               /\ ad.status = prevAd.status
               /\ ad.createdAt = prevAd.createdAt
               /\ ad.processingStartedAt = prevAd.processingStartedAt
               /\ ad.processedAt = prevAd.processedAt
               /\ ad.version = prevAd.version

\* StartProcessing was called, at a later second, on an ad that is already
\* being processed, and was refused.
C4_Witness ==
    /\ adCall.op = "StartProcessing"
    /\ adCall.err = ErrInvalidStatusTransition
    /\ prevAd.status = AdStatusProcessing
    /\ now > prevAd.processingStartedAt

\* C15: ChangePriority on an ad that is processing, completed or failed is
\* refused and leaves its priority and version as they were; it succeeds
\* only on a queued ad.
C15_ChangeOnlyQueued ==
    adCall.op = "ChangePriority" =>
        /\ adCall.err = NoErr => prevAd.status = AdStatusQueued
        /\ prevAd.status \in {AdStatusProcessing, AdStatusCompleted, AdStatusFailed} =>
              /\ adCall.err # NoErr
              /\ ad.priority = prevAd.priority
              /\ ad.version = prevAd.version

\* C16: a call of StartProcessing, CompleteProcessing, FailProcessing or
\* ChangePriority that succeeds leaves the version one higher, a call that
\* is refused leaves it the same, and no call lowers it.
C16_VersionCounts ==
    /\ ad.version >= prevAd.version
    /\ adCall.op # "none" =>
          IF adCall.err = NoErr THEN ad.version = prevAd.version + 1
          ELSE ad.version = prevAd.version

\* Each of the four methods has succeeded and has been refused: a third
\* successful change was followed by a refused call.
C16_Witness ==
    /\ adCall.op \in TransitionCalls \cup {"ChangePriority"}
    /\ adCall.err # NoErr
    /\ ad.version = 4
    /\ ad.status = AdStatusFailed

\* C17: processingStartedAt is set exactly when the ad is processing,
\* completed or failed, and processedAt exactly when it is completed or
\* failed.
C17_TimestampsFollowStatus ==
    /\ ad.processingStartedAt # Null
          <=> ad.status \in {AdStatusProcessing, AdStatusCompleted, AdStatusFailed}
    /\ ad.processedAt # Null <=> ad.status \in {AdStatusCompleted, AdStatusFailed}

(***************************************************************************)
(* SpecStore: callers that create or load an ad, change it through the     *)
(* entity's methods and save it, against the Postgres or the in-memory     *)
(* repository.  The Postgres repository hands out a copy of the row; the   *)
(* in-memory one stores the pointer it is given and FindByID returns that  *)
(* pointer, so the caller's entity is the stored object.                   *)
(***************************************************************************)
InitStore ==
    /\ InitQueueVars
    /\ InitRaceVars
    /\ InitAdVars
    /\ InitSysVars
    /\ InitStarveVars
    /\ InitCmdVars
    /\ InitPoolVars
    /\ InitScoreVars
    /\ store = EmptyStore
    /\ repo \in {"postgres", "memory"}
    /\ client = [c \in StoreCallers |-> NoClient]
    /\ saveLog = NoSave

Held(c) == IF client[c].alias THEN store[client[c].id] ELSE client[c].ent

\* NewAd: a fresh id, an entity not yet stored.
StoreNewAd(c, id, priority) ==
    /\ client[c] = NoClient
    /\ store[id] = NoRow
    /\ \A d \in StoreCallers : client[d].id # id
    /\ \E g \in GameFamilies :
          client' = [client EXCEPT ![c] =
                        [NoClient EXCEPT !.id = id, !.ent = CreateAd(id, g, priority, now)]]
    /\ UNCHANGED <<store, repo, saveLog, now, restStore>>

StoreFindByID(c, id) ==
    /\ client[c] = NoClient
    /\ store[id] # NoRow
    /\ client' = [client EXCEPT ![c] =
                    IF repo = "memory"
                    THEN [NoClient EXCEPT !.id = id, !.alias = TRUE,
                                          !.loaded = store[id].version]
                    ELSE [NoClient EXCEPT !.id = id, !.ent = store[id],
                                          !.loaded = store[id].version]]
    /\ UNCHANGED <<store, repo, saveLog, now, restStore>>

Apply(op, a, p, t) ==
    CASE op = "StartProcessing" -> StartProcessing(a, t)
      [] op = "CompleteProcessing" -> CompleteProcessing(a, t)
      [] op = "FailProcessing" -> FailProcessing(a)
      [] op = "ChangePriority" -> ChangePriority(a, p)

\* A successful method call on the entity the caller holds.
StoreChange(c, op, p) ==
    /\ client[c].id # 0
    /\ Held(c).version < MaxVersion
    /\ LET r == Apply(op, Held(c), p, now)
       IN  /\ r.err = NoErr
           /\ IF client[c].alias
              THEN /\ store' = [store EXCEPT ![client[c].id] = r.ad]
                   /\ client' = [client EXCEPT ![c].muts = Min(@ + 1, 2)]
              ELSE /\ store' = store
                   /\ client' = [client EXCEPT ![c].ent = r.ad, ![c].muts = Min(@ + 1, 2)]
    /\ UNCHANGED <<repo, saveLog, now, restStore>>

StoreSave(c) ==
    /\ client[c].id # 0
    /\ LET e == Held(c)
           res == IF repo = "memory" THEN MemorySave(store, e) ELSE PostgresSave(store, e)
       IN  /\ store' = res.store
           /\ saveLog' = [op |-> "Save", id |-> e.id, pre |-> store[e.id], item |-> e,
                          post |-> res.store[e.id], err |-> res.err]
           /\ client' = [client EXCEPT
                            ![c].ok = @ \/ res.err = NoErr,
                            ![c].alias = (repo = "memory"),
                            ![c].ent = IF repo = "memory" THEN NoRow ELSE @]
    /\ UNCHANGED <<repo, now, restStore>>

\* The caller lets go of its entity.
StoreRelease(c) ==
    /\ client[c].id # 0
    /\ client' = [client EXCEPT ![c] = NoClient]
    /\ UNCHANGED <<store, repo, saveLog, now, restStore>>

NextStore ==
    \/ \E c \in StoreCallers, a \in StoreAdIds, p \in {PriorityNormal} : StoreNewAd(c, a, p)
    \/ \E c \in StoreCallers, a \in StoreAdIds : StoreFindByID(c, a)
    \/ \E c \in StoreCallers, op \in TransitionCalls : StoreChange(c, op, 0)
    \/ \E c \in StoreCallers, p \in {PriorityLow, PriorityHigh} :
          StoreChange(c, "ChangePriority", p)
    \/ \E c \in StoreCallers : StoreSave(c)
    \/ \E c \in StoreCallers : StoreRelease(c)

SpecStore == InitStore /\ [][NextStore]_vars

(***************************************************************************)
(* Claims checked under SpecStore.                                         *)
(***************************************************************************)
\* The last Save of an id that was stored went through only with the stored
\* version one less than the entity's, and otherwise returned
\* ErrOptimisticLockFailed and left the row as it was.
SaveIsConditional ==
    (saveLog.op = "Save" /\ saveLog.pre # NoRow) =>
        IF saveLog.pre.version = saveLog.item.version - 1
        THEN saveLog.err = NoErr
        ELSE saveLog.err = ErrOptimisticLockFailed /\ saveLog.post = saveLog.pre

\* No two callers that loaded the same version of an ad and changed it once
\* each have both saved it.
OneSaveWins ==
    \A c, d \in StoreCallers :
        (/\ c # d
         /\ client[c].id # 0
         /\ client[c].id = client[d].id
         /\ client[c].loaded # 0
         /\ client[c].loaded = client[d].loaded
         /\ client[c].muts = 1
         /\ client[d].muts = 1)
        => ~(client[c].ok /\ client[d].ok)

\* C5: Save of an id that is already stored succeeds only if the stored
\* version is the entity's version minus one, and otherwise fails with
\* ErrOptimisticLockFailed and leaves the row unchanged; of two callers that
\* loaded the same version and changed it once each, at most one Save
\* succeeds.
C5_OptimisticLock == SaveIsConditional /\ OneSaveWins

\* The same for the Postgres repository alone.
PostgresOptimisticLock == repo = "postgres" => (SaveIsConditional /\ OneSaveWins)

\* C27: after a Save that succeeds, FindByID gives a record equal to the
\* saved item in every field: status, priority, version, and the
\* processingStartedAt and processedAt the item carried.
C27_SaveThenFind ==
    (saveLog.op = "Save" /\ saveLog.err = NoErr) => saveLog.post = saveLog.item

(***************************************************************************)
(* SpecSys: the running system.  The API process creates ads and rewrites  *)
(* priorities in bulk (AdService); the processor runs the dispatcher       *)
(* (pollQueue), the workers (runWorker, processAd) and the anti-starvation *)
(* daemon under one context.  Both use the Postgres repository and the     *)
(* Redis queue manager.  Every Redis command, every database statement or  *)
(* transaction and every channel operation is one step; a process's local  *)
(* computation belongs to the step that follows it.                        *)
(***************************************************************************)
InitSys ==
    /\ InitQueueVars
    /\ InitRaceVars
    /\ InitAdVars
    /\ InitStoreVars
    /\ InitSysVars
    /\ InitStarveVars
    /\ InitCmdVars
    /\ InitPoolVars
    /\ InitScoreVars

\* CreateAd, up to the Save of the new entity.
SysCreateSave(a, priority) ==
    /\ created[a].pc = "no"
    /\ \E g \in GameFamilies :
          LET e == CreateAd(a, g, priority, now)
          IN  /\ store' = PostgresSave(store, e).store
              /\ created' = [created EXCEPT ![a] = [pc |-> "saved", ent |-> e]]
    /\ UNCHANGED <<redis, now, config, disp, chans, work, rw, dm, ctxDone, dropped,
                   aborted, restSys>>

\* CreateAd, the Enqueue with the priority of the entity it created.  The
\* GetPosition that follows reads the queue and changes nothing.
SysCreateEnqueue(a) ==
    /\ created[a].pc = "saved"
    /\ redis' = ZAdd(redis, getShardKey(a),
                     [member |-> a,
                      score |-> calculateScore(created[a].ent.priority, now)])
    /\ created' = [created EXCEPT ![a] = [pc |-> "done", ent |-> NoRow]]
    /\ UNCHANGED <<store, now, config, disp, chans, work, rw, dm, ctxDone, dropped,
                   aborted, restSys>>

\* pollQueue: a tick of the ticker starts DequeueBatch(BatchSize), whose
\* first loop peeks the shards one by one.  With the context cancelled the
\* loop returns instead of taking a tick, and a peek in progress fails, which
\* ends DequeueBatch with an error.
PollPeek ==
    /\ \/ disp.pc = "tick" /\ ~ctxDone
       \/ disp.pc = "peek"
    /\ LET i == disp.i
           allItems == disp.items \o TopOfShard(redis, i, BatchSize)
           selected == TakeTop(SortByScoreDesc(allItems), BatchSize)
           toRemove == {key \in ShardKeys : MembersOf(selected, key) # {}}
       IN  disp' = IF ctxDone THEN DispIdle
                   ELSE IF i + 1 < ShardCount
                   THEN [DispIdle EXCEPT !.pc = "peek", !.i = i + 1, !.items = allItems]
                   ELSE IF toRemove = {} THEN DispIdle
                   ELSE [DispIdle EXCEPT !.pc = "rem", !.items = selected,
                                         !.pend = toRemove]
    /\ UNCHANGED <<redis, store, now, config, created, chans, work, rw, dm, ctxDone,
                   dropped, aborted, restSys>>

\* DequeueBatch, the ZRem for one shard of toRemove; neither its error nor
\* its count is looked at.  After the last one the selected entries go to
\* distributeItems.
PollZRem(key) ==
    /\ disp.pc = "rem"
    /\ key \in disp.pend
    /\ redis' = IF ctxDone THEN redis ELSE ZRem(redis, key, MembersOf(disp.items, key))
    /\ disp' = IF disp.pend = {key} THEN [disp EXCEPT !.pc = "dist", !.pend = {}]
               ELSE [disp EXCEPT !.pend = @ \ {key}]
    /\ UNCHANGED <<store, now, config, created, chans, work, rw, dm, ctxDone,
                   dropped, aborted, restSys>>

AnyWorker == Workers

FreeWorkers == {w \in Workers : Len(chans[w]) < ChanCap}

\* distributeItems, one item: it goes to the first worker whose channel has
\* room; when no channel has room (the second try of workers[0] included)
\* the item is skipped.  A channel holds the ids of its queue items.
Distribute ==
    /\ disp.pc = "dist"
    /\ LET adID == disp.items[1].member
           rest == Tail(disp.items)
       IN  /\ IF FreeWorkers # {}
              THEN LET w == CHOOSE v \in FreeWorkers : \A u \in FreeWorkers : v <= u
                   IN  /\ chans' = [chans EXCEPT ![w] = Append(@, adID)]
                       /\ dropped' = dropped \ {adID}
              ELSE /\ chans' = chans
                   /\ dropped' = dropped \cup {adID}
           /\ disp' = IF rest = <<>> THEN DispIdle ELSE [disp EXCEPT !.items = rest]
    /\ UNCHANGED <<redis, store, now, config, created, work, rw, dm, ctxDone,
                   aborted, restSys>>

DispatcherNext ==
    \/ PollPeek
    \/ \E key \in ShardKeys : PollZRem(key)
    \/ Distribute

\* runWorker: the receive from processingCh.  With the context cancelled the
\* worker returns.
WorkerReceive(w) ==
    /\ ~ctxDone
    /\ work[w].pc = "idle"
    /\ chans[w] # <<>>
    /\ work' = [work EXCEPT ![w] = [WorkIdle EXCEPT !.pc = "find", !.id = Head(chans[w])]]
    /\ chans' = [chans EXCEPT ![w] = Tail(@)]
    /\ UNCHANGED <<redis, store, now, config, created, disp, rw, dm, ctxDone,
                   dropped, aborted, restSys>>

\* processAd: FindByID; an error ends processAd.
WorkerFind(w) ==
    /\ work[w].pc = "find"
    /\ work' = [work EXCEPT ![w] =
                  IF ctxDone \/ store[work[w].id] = NoRow THEN WorkIdle
                  ELSE [@ EXCEPT !.pc = "start", !.ent = store[work[w].id]]]
    /\ UNCHANGED <<redis, store, now, config, created, disp, chans, rw, dm, ctxDone,
                   dropped, aborted, restSys>>

WorkerStartFatal(w) ==
    /\ work[w].pc = "start"
    /\ LET r == StartProcessing(work[w].ent, now)
           s == PostgresSave(store, r.ad)
           failed == r.err # NoErr \/ ctxDone \/ s.err # NoErr
       IN  /\ store' = IF r.err # NoErr \/ ctxDone THEN store ELSE s.store
           /\ work' = [work EXCEPT ![w] =
                         IF failed THEN WorkIdle ELSE [@ EXCEPT !.pc = "sleep", !.ent = r.ad]]
           /\ wg' = IF failed THEN wg \ {<<"runWorker", w>>} ELSE wg
    /\ UNCHANGED <<redis, now, config, created, disp, chans, rw, dm, ctxDone,
                   dropped, aborted, stopCall, restPool>>

\* processAd: StartProcessing and the Save of the new status; an error of
\* either ends processAd.
WorkerStart(w) ==
    /\ work[w].pc = "start"
    /\ LET r == StartProcessing(work[w].ent, now)
           s == PostgresSave(store, r.ad)
       IN  IF r.err # NoErr \/ ctxDone
           THEN /\ store' = store
                /\ work' = [work EXCEPT ![w] = WorkIdle]
           ELSE /\ store' = s.store
                /\ work' = [work EXCEPT ![w] =
                              IF s.err = NoErr THEN [@ EXCEPT !.pc = "sleep", !.ent = r.ad]
                              ELSE WorkIdle]
    /\ UNCHANGED <<redis, now, config, created, disp, chans, rw, dm, ctxDone,
                   dropped, aborted, restSys>>

\* processAd: the processing time is over; CompleteProcessing and the Save
\* of the final status.
WorkerComplete(w) ==
    /\ work[w].pc = "sleep"
    /\ ~ctxDone
    /\ store' = PostgresSave(store, CompleteProcessing(work[w].ent, now).ad).store
    /\ work' = [work EXCEPT ![w] = WorkIdle]
    /\ UNCHANGED <<redis, now, config, created, disp, chans, rw, dm, ctxDone,
                   dropped, aborted, restSys>>

\* processAd: the context is cancelled during the processing time; processAd
\* returns ctx.Err().  (Had the timer won the select, the Save of the final
\* status would fail on the cancelled context: the store is left the same.)
WorkerCancelled(w) ==
    /\ work[w].pc = "sleep"
    /\ ctxDone
    /\ aborted' = aborted \cup {work[w].id}
    /\ work' = [work EXCEPT ![w] = WorkIdle]
    /\ UNCHANGED <<redis, store, now, config, created, disp, chans, rw, dm, ctxDone,
                   dropped, restSys>>

\* The processor's context is cancelled.
Cancel ==
    /\ ~ctxDone
    /\ ctxDone' = TRUE
    /\ UNCHANGED <<redis, store, now, config, created, disp, chans, work, rw, dm,
                   dropped, aborted, restSys>>

\* ChangePriorityForGameFamily: FindByGameFamily and the filter for queued
\* ads; with none selected the call returns 0.  sel keeps the rows as they
\* were selected.
RewriteFind(gameFamily, newPriority) ==
    /\ rw.pc \in {"idle", "done"}
    /\ rw.count < MaxRewrites
    /\ LET ids == QueuedOfFamily(store, gameFamily)
       IN  rw' = [RwIdle EXCEPT
                     !.pc = IF ids = <<>> THEN "done" ELSE "batch",
                     !.prio = newPriority,
                     !.ids = ids,
                     !.count = rw.count + 1,
                     !.sel = [a \in AdIds |-> IF a \in SeqToSet(ids) THEN store[a] ELSE NoRow]]
    /\ UNCHANGED <<redis, store, now, config, created, disp, chans, work, dm, ctxDone,
                   dropped, aborted, restSys>>

\* ChangePriorityForGameFamily: UpdatePriorityBatch, one transaction.
\* skipped keeps the selected ids whose row was no longer queued.
RewriteBatch ==
    /\ rw.pc = "batch"
    /\ store' = UpdatePriorityBatch(store, rw.ids, rw.prio)
    /\ rw' = [rw EXCEPT !.pc = "zscore", !.n = 1,
                        !.skipped = {a \in SeqToSet(rw.ids) :
                                        store[a].status # AdStatusQueued}]
    /\ UNCHANGED <<redis, now, config, created, disp, chans, work, dm, ctxDone,
                   dropped, aborted, restSys>>

\* Where the rewrite goes after the n-th id.
RwAfter(r) ==
    IF r.n < Len(r.ids) THEN [r EXCEPT !.pc = "zscore", !.n = @ + 1, !.score = 0]
    ELSE [r EXCEPT !.pc = "done", !.n = 0, !.score = 0]

\* ChangePriorityForGameFamily: UpdatePriority of the n-th id, its ZScore; an
\* id not in the queue is passed over.
RewriteZScore ==
    /\ rw.pc = "zscore"
    /\ LET adID == rw.ids[rw.n]
           key == getShardKey(adID)
       IN  rw' = IF ~ZHas(redis, key, adID) THEN RwAfter(rw)
                 ELSE [rw EXCEPT !.pc = "zadd", !.score = ZScore(redis, key, adID)]
    /\ UNCHANGED <<redis, store, now, config, created, disp, chans, work, dm, ctxDone,
                   dropped, aborted, restSys>>

\* ChangePriorityForGameFamily: UpdatePriority of the n-th id, its ZAdd.
RewriteZAdd ==
    /\ rw.pc = "zadd"
    /\ redis' = ZAdd(redis, getShardKey(rw.ids[rw.n]),
                     [member |-> rw.ids[rw.n],
                      score |-> UpdatedScore(rw.score, rw.prio)])
    /\ rw' = RwAfter([rw EXCEPT !.updatedCount = @ + 1])
    /\ UNCHANGED <<store, now, config, created, disp, chans, work, dm, ctxDone,
                   dropped, aborted, restSys>>

\* Where a daemon pass goes after shard i.
DmAfter(i) ==
    IF i + 1 < ShardCount THEN [DmIdle EXCEPT !.pc = "range", !.i = i + 1] ELSE DmIdle

\* runAntiStarvation: a tick starts ApplyAntiStarvation, which reads every
\* shard in full, ZRangeWithScores(shard, 0, -1); a failed read skips the
\* shard.
DaemonRange ==
    /\ \/ dm.pc = "tick" /\ ~ctxDone /\ config.AntiStarvationEnabled
       \/ dm.pc = "range"
    /\ LET items == IF ctxDone THEN <<>> ELSE ZRangeWithScores(redis, dm.i, 0, -1)
       IN  dm' = IF items = <<>> THEN DmAfter(dm.i)
                 ELSE [DmIdle EXCEPT !.pc = "item", !.i = dm.i, !.items = items, !.n = 1]
    /\ UNCHANGED <<redis, store, now, config, created, disp, chans, work, rw, ctxDone,
                   dropped, aborted, restSys>>

\* ApplyAntiStarvation, one entry of the shard it read: an entry older than
\* MaxWaitTime and below PriorityHigh is written back with its boosted
\* priority; the error of the ZAdd is not looked at.
DaemonItem ==
    /\ dm.pc = "item"
    /\ LET z == dm.items[dm.n]
       IN  redis' = IF NeedsBoost(z.score, now, config.MaxWaitTime) /\ ~ctxDone
                    THEN ZAdd(redis, dm.i, [member |-> z.member,
                                            score |-> BoostedScore(z.score, now)])
                    ELSE redis
    /\ dm' = IF dm.n < Len(dm.items) THEN [dm EXCEPT !.n = @ + 1] ELSE DmAfter(dm.i)
    /\ UNCHANGED <<store, now, config, created, disp, chans, work, rw, ctxDone,
                   dropped, aborted, restSys>>

SysPriorities == {PriorityNormal}
RewritePriorities == {PriorityHigh}

ApiNext(ids) ==
    \/ \E a \in ids, p \in SysPriorities : SysCreateSave(a, p)
    \/ \E a \in ids : SysCreateEnqueue(a)
    \/ \E g \in GameFamilies, p \in RewritePriorities : RewriteFind(g, p)
    \/ RewriteBatch
    \/ RewriteZScore
    \/ RewriteZAdd

WorkerNext ==
    \/ \E w \in Workers : WorkerReceive(w)
    \/ \E w \in Workers : WorkerFind(w)
    \/ \E w \in Workers : WorkerStart(w)
    \/ \E w \in Workers : WorkerComplete(w)
    \/ \E w \in Workers : WorkerCancelled(w)

DaemonNext ==
    \/ DaemonRange
    \/ DaemonItem

\* SpecSys: the API process, the dispatcher and the workers.
NextSys ==
    \/ Tick
    \/ ApiNext(SysAdIds)
    \/ DispatcherNext
    \/ WorkerNext
    \/ Cancel

SpecSys == InitSys /\ [][NextSys]_vars

\* SpecLive: the same with the anti-starvation daemon, over fewer ads.
NextLive ==
    \/ Tick
    \/ ApiNext(LiveAdIds)
    \/ DispatcherNext
    \/ WorkerNext
    \/ Cancel
    \/ DaemonNext

SpecLive == InitSys /\ [][NextLive]_vars

\* FairLive: the ticker of pollQueue keeps firing and the steps of the
\* dispatcher are taken.
FairLive == SpecLive /\ WF_vars(DispatcherNext)

\* FairSys: SpecSys with the same fairness.
FairSys == SpecSys /\ WF_vars(DispatcherNext)

(***************************************************************************)
(* Claims checked under SpecSys and FairLive.                              *)
(***************************************************************************)
InQueue(a) == a \in QueuedIds(redis)

Stale(a) == InQueue(a) /\ store[a] # NoRow /\ store[a].status # AdStatusQueued

\* C7: an id in a queue shard has a row in the store, and whenever an id is
\* in a queue shard with a status other than queued, the running processor
\* takes it out again: the window closes by a dequeue, with no enqueue.
C7_QueuedInStore ==
    /\ [](\A a \in LiveAdIds : InQueue(a) => store[a] # NoRow)
    /\ \A a \in LiveAdIds : Stale(a) ~> (~InQueue(a) \/ ctxDone)

\* An id is in the queue while its ad is being processed or is completed.
C7_Witness == \E a \in LiveAdIds : Stale(a) /\ ~ctxDone

\* C8: an id the dispatcher skipped because no channel had room, and has not
\* handed to a worker since, is in the queue, where the DequeueBatch of the
\* next tick finds it.
C8_DroppedIsRequeued == \A a \in dropped : InQueue(a)

\* C9: an ad whose processing was cut short by the cancellation of the
\* context is failed in the store.
C9_CancelledIsFailed == \A a \in aborted : store[a].status = AdStatusFailed

Selected == SeqToSet(rw.ids)

\* The statement as made: once the rewrite has returned, every selected ad
\* has the new priority and the version it was selected with plus one.
C10_EverySelectedRewritten ==
    rw.pc = "done" =>
        \A a \in Selected : /\ store[a].priority = rw.prio
                            /\ store[a].version = rw.sel[a].version + 1

\* C10: once the rewrite has returned, a selected ad whose row was still
\* queued when the batch update ran has the new priority, and as long as it
\* is queued the version it was selected with plus one; a selected ad that a
\* worker had started before the batch update ran was passed over: it is no
\* longer queued and has the priority it was selected with.
C10_QueuedSelectedRewritten ==
    rw.pc = "done" =>
        \A a \in Selected :
            IF a \in rw.skipped
            THEN /\ store[a].status # AdStatusQueued
                 /\ store[a].priority = rw.sel[a].priority
            ELSE /\ store[a].priority = rw.prio
                 /\ store[a].status = AdStatusQueued =>
                       store[a].version = rw.sel[a].version + 1

\* A rewrite returned that selected an ad a worker started before the batch
\* update and another that is still queued.
C10_Witness ==
    /\ rw.pc = "done"
    /\ \E a, b \in Selected :
          /\ a \in rw.skipped
          /\ b \notin rw.skipped
          /\ store[b].status = AdStatusQueued

\* C11: the count a rewrite returns is the number of queued ads it selected,
\* whatever the number of UpdatePriority calls on the queue that failed.
C11_AffectedIsSelected == rw.pc = "done" => rw.updatedCount = Len(rw.ids)

(***************************************************************************)
(* SpecStarve: the queue manager beside the anti-starvation daemon, over   *)
(* the minutes an entry waits.  Enqueue, Dequeue and UpdatePriority are    *)
(* taken as one step each; a pass of the daemon is interleaved with them   *)
(* at every Redis command.  The clock is read at the instants 0 s, 30 s    *)
(* and 30 s after every fifth minute, so that an entry is seen at the ages *)
(* 30 s, 5 min, 5 min 30 s, 10 min, ...                                    *)
(***************************************************************************)
StarveAdIds == 1..NumStarveAds

\* config.Queue.MaxWaitTimeSeconds: none, or five minutes.
MaxWaitTimes == {0, FiveMinutes}

Instants == {0, TickerPeriod} \cup {k * FiveMinutes + TickerPeriod : k \in 1..MaxFiveMinutes}

LastInstant == MaxFiveMinutes * FiveMinutes + TickerPeriod

restStarve == <<config, ret, enqAt, raceVars, adVars, store, storeVars, sysVars, cmdVars,
               poolVars, sc>>

InitStarve ==
    /\ redis = [k \in ShardKeys |-> {}]
    /\ now = 0
    /\ config \in {[DefaultConfig EXCEPT !.MaxWaitTime = w] : w \in MaxWaitTimes}
    /\ ret = NoRet
    /\ enqAt = [a \in AdIds |-> 0]
    /\ InitRaceVars
    /\ InitAdVars
    /\ InitStoreVars
    /\ InitSysVars
    /\ InitStarveVars
    /\ InitCmdVars
    /\ InitPoolVars
    /\ InitScoreVars

\* The clock moves on to the next instant.
StarveTick ==
    /\ now < LastInstant
    /\ now' = CHOOSE t \in Instants : t > now /\ \A u \in Instants : u > now => t <= u
    /\ UNCHANGED <<redis, lastPrio, restStarve>>

\* Enqueue of an id that is not in the queue, while the clock has the time
\* ahead that takes the lowest priority to the highest.
StarveEnqueue(adID, priority) ==
    /\ ~InQueue(adID)
    /\ now + (PriorityHigh - PriorityLow) * FiveMinutes <= LastInstant
    /\ redis' = ZAdd(redis, getShardKey(adID),
                     [member |-> adID, score |-> calculateScore(priority, now)])
    /\ lastPrio' = [lastPrio EXCEPT ![adID] = priority]
    /\ UNCHANGED <<now, restStarve>>

\* Dequeue from a queue that is not empty.
StarveDequeue ==
    /\ BestFrom(redis, 0, <<>>) # <<>>
    /\ LET best == BestFrom(redis, 0, <<>>)
       IN  redis' = ZRem(redis, best[1].shard, {best[1].member})
    /\ UNCHANGED <<now, lastPrio, restStarve>>

\* UpdatePriority of an id that is in the queue.
StarveUpdate(adID, newPriority) ==
    /\ InQueue(adID)
    /\ LET key == getShardKey(adID)
       IN  redis' = ZAdd(redis, key,
                         [member |-> adID,
                          score |-> UpdatedScore(ZScore(redis, key, adID), newPriority)])
    /\ lastPrio' = [lastPrio EXCEPT ![adID] = newPriority]
    /\ UNCHANGED <<now, restStarve>>

NextStarve ==
    \/ StarveTick
    \/ \E a \in StarveAdIds, p \in RacePriorities : StarveEnqueue(a, p)
    \/ StarveDequeue
    \/ \E a \in StarveAdIds, p \in RacePriorities : StarveUpdate(a, p)
    \/ DaemonNext

SpecStarve == InitStarve /\ [][NextStarve]_vars

\* FairStarve: time passes and the ticker of runAntiStarvation keeps firing.
FairStarve == SpecStarve /\ WF_vars(StarveTick) /\ WF_vars(DaemonNext)

(***************************************************************************)
(* Claims checked under SpecStarve and FairStarve.                         *)
(***************************************************************************)
EntryOf(r, a) == CHOOSE z \in AllEntries(r) : z.member = a

QueuePriority(a) == PriorityOfScore(EntryOf(redis, a).score)

\* enqueued_at as the score encodes it.
EnqueuedAt(a) == TMax - (EntryOf(redis, a).score % PBand)

\* A step in which the daemon handles one entry of the shard it read.
DaemonHandlesEntry == dm.pc = "item" /\ dm' # dm

\* C12: a write of the daemon leaves no entry of the queue with a lower
\* priority than it had immediately before the write, and none above 5,
\* whatever UpdatePriority calls ran between the daemon's read of the shard
\* and its write.
C12_DaemonNeverLowers ==
    [][DaemonHandlesEntry =>
          \A z \in AllEntries(redis) : \A y \in AllEntries(redis') :
              y.member = z.member =>
                  /\ PriorityOfScore(y.score) >= PriorityOfScore(z.score)
                  /\ PriorityOfScore(y.score) <= 5]_vars

\* min(5, p + floor((age - max_wait) / 5 min)).
ClaimedPriority(p, age, maxWait) == Min(5, p + ((age - maxWait) \div FiveMinutes))

\* C13: when the daemon handles an entry that is in the queue as the daemon
\* read it, with priority p < 5 and age = now - enqueued_at > max_wait, the
\* entry has the priority min(5, p + floor((age - max_wait) / 5 min))
\* afterwards.
C13_BoostByOverrun ==
    [][DaemonHandlesEntry =>
          LET z == dm.items[dm.n]
              p == z.score \div PBand
              age == now - (TMax - (z.score % PBand))
          IN  (z \in redis[dm.i] /\ p < 5 /\ age > config.MaxWaitTime) =>
                  /\ ZHas(redis', dm.i, z.member)
                  /\ ZScore(redis', dm.i, z.member) \div PBand
                        = ClaimedPriority(p, age, config.MaxWaitTime)]_vars

RepoAdIds == 1..NumRepoAds

AdStatuses == {AdStatusQueued, AdStatusProcessing, AdStatusCompleted, AdStatusFailed}

RECURSIVE DistinctSeqs(_)
DistinctSeqs(S) ==
    {<<>>} \cup UNION {{<<a>> \o q : q \in DistinctSeqs(S \ {a})} : a \in S}

InitRepo ==
    /\ InitQueueVars
    /\ InitRaceVars
    /\ InitAdVars
    /\ InitSysVars
    /\ InitStarveVars
    /\ InitCmdVars
    /\ InitPoolVars
    /\ InitScoreVars
    /\ store = EmptyStore
    /\ repo \in {"postgres", "memory"}
    /\ client = [c \in StoreCallers |-> NoClient]
    /\ saveLog = NoSave

RepoSave(st, e) == IF repo = "memory" THEN MemorySave(st, e) ELSE PostgresSave(st, e)

RepoLog(op, id, ids, status, version, prio, err) ==
    [op |-> op, id |-> id, ids |-> ids, status |-> status, version |-> version,
     prio |-> prio, err |-> err, pre |-> store]

Growable(ids) == \A a \in ids : store[a] # NoRow => store[a].version < MaxVersion

\* Save of a new ad.
RepoCreate(id, priority) ==
    /\ store[id] = NoRow
    /\ \E g \in GameFamilies :
          LET res == RepoSave(store, CreateAd(id, g, priority, now))
          IN  /\ store' = res.store
              /\ saveLog' = RepoLog("Save", id, <<>>, "", 0, 0, res.err)
    /\ UNCHANGED <<repo, client, now, restStore>>

\* FindByID, a method of the entity that succeeds, and Save.
RepoChange(id, op, p) ==
    /\ store[id] # NoRow
    /\ Growable({id})
    /\ LET r == Apply(op, store[id], p, now)
           res == RepoSave(store, r.ad)
       IN  /\ r.err = NoErr
           /\ store' = res.store
           /\ saveLog' = RepoLog("Save", id, <<>>, "", 0, 0, res.err)
    /\ UNCHANGED <<repo, client, now, restStore>>

RepoUpdateStatus(id, status, version) ==
    /\ Growable({id})
    /\ LET res == IF repo = "memory" THEN MemoryUpdateStatus(store, id, status, now)
                  ELSE PostgresUpdateStatus(store, id, status, version)
       IN  /\ store' = res.store
           /\ saveLog' = RepoLog("UpdateStatus", id, <<>>, status, version, 0, res.err)
    /\ UNCHANGED <<repo, client, now, restStore>>

RepoUpdatePriorityBatch(ids, newPriority) ==
    /\ Growable(SeqToSet(ids))
    /\ LET res == IF repo = "memory" THEN MemoryUpdatePriorityBatch(store, ids, newPriority)
                  ELSE SaveResult(UpdatePriorityBatch(store, ids, newPriority), NoErr)
       IN  /\ store' = res.store
           /\ saveLog' = RepoLog("UpdatePriorityBatch", 0, ids, "", 0, newPriority, res.err)
    /\ UNCHANGED <<repo, client, now, restStore>>

NextRepo ==
    \/ \E a \in RepoAdIds : RepoCreate(a, PriorityNormal)
    \/ \E a \in RepoAdIds, op \in TransitionCalls : RepoChange(a, op, 0)
    \/ \E a \in RepoAdIds, st \in AdStatuses, v \in 1..MaxVersion :
          RepoUpdateStatus(a, st, v)
    \/ \E ids \in DistinctSeqs(RepoAdIds), p \in {PriorityLow, PriorityHigh} :
          RepoUpdatePriorityBatch(ids, p)

SpecRepo == InitRepo /\ [][NextRepo]_vars

(***************************************************************************)
(* Claims checked under SpecRepo.                                          *)
(***************************************************************************)
\* C18: whatever call a repository serves, the stored status of an ad
\* changes only along queued -> processing, processing -> completed or
\* processing -> failed, so that it is never queued after processing nor
\* processing after completed or failed; and UpdateStatus with another
\* status than the stored one that is not its successor is refused.
C18_StoredStatusIsMonotone ==
    saveLog.op # "none" =>
        /\ \A a \in RepoAdIds :
              (/\ saveLog.pre[a] # NoRow
               /\ store[a] # NoRow
               /\ store[a].status # saveLog.pre[a].status)
              => <<saveLog.pre[a].status, store[a].status>> \in StatusEdges
        /\ (/\ saveLog.op = "UpdateStatus"
            /\ saveLog.pre[saveLog.id] # NoRow
            /\ saveLog.status # saveLog.pre[saveLog.id].status
            /\ <<saveLog.pre[saveLog.id].status, saveLog.status>> \notin StatusEdges)
           => saveLog.err # NoErr

\* UpdateStatus on a stored id changes the table only if the stored version
\* is the expected one, and otherwise returns ErrOptimisticLockFailed.
UpdateStatusIsConditional ==
    (saveLog.op = "UpdateStatus" /\ saveLog.pre[saveLog.id] # NoRow) =>
        /\ store # saveLog.pre => saveLog.pre[saveLog.id].version = saveLog.version
        /\ saveLog.pre[saveLog.id].version # saveLog.version =>
              /\ saveLog.err = ErrOptimisticLockFailed
              /\ store = saveLog.pre

\* C19: UpdateStatus(id, status, version) changes the stored row only when
\* the stored version equals the version given; on a mismatch it returns
\* ErrOptimisticLockFailed and the table is as it was.
C19_UpdateStatusLocks == UpdateStatusIsConditional

\* The same for the Postgres repository alone.
PostgresUpdateStatusLocks == repo = "postgres" => UpdateStatusIsConditional

\* UpdatePriorityBatch(ids, p) leaves a row of ids that was queued with the
\* priority p and its version plus one, and every other row as it was.
BatchChangesQueuedOnly ==
    saveLog.op = "UpdatePriorityBatch" =>
        \A a \in AdIds :
            store[a] = IF /\ a \in SeqToSet(saveLog.ids)
                          /\ saveLog.pre[a] # NoRow
                          /\ saveLog.pre[a].status = AdStatusQueued
                       THEN [saveLog.pre[a] EXCEPT !.priority = saveLog.prio,
                                                   !.version = @ + 1]
                       ELSE saveLog.pre[a]

\* C20: UpdatePriorityBatch(ids, p) changes exactly the rows of ids that are
\* queued when it runs, setting priority = p and version + 1 on each, and
\* leaves the rows that are processing, completed or failed and the rows
\* outside ids unchanged.
C20_BatchFrame == BatchChangesQueuedOnly

\* The same for the Postgres repository alone.
PostgresBatchFrame == repo = "postgres" => BatchChangesQueuedOnly

\* C21: an UpdatePriorityBatch that returns an error has changed the
\* priority or version of no row.
C21_BatchAllOrNothing ==
    (saveLog.op = "UpdatePriorityBatch" /\ saveLog.err # NoErr) => store = saveLog.pre

(***************************************************************************)
(* SpecPair: Enqueue, UpdatePriority and Remove called one at a time.  The *)
(* record of caller 1 is a history of the calls: op, id and prio are the   *)
(* last call, k counts how many times in a row it was made with the same   *)
(* arguments (up to 2), and items holds the queue before each of them.     *)
(***************************************************************************)
restPair == <<config, returned, enqueues, gone, adVars, store, storeVars, sysVars,
              starveVars, cmdVars, poolVars, sc>>

InitPair ==
    /\ InitQueueVars
    /\ InitRaceVars
    /\ InitAdVars
    /\ InitStoreVars
    /\ InitSysVars
    /\ InitStarveVars
    /\ InitCmdVars
    /\ InitPoolVars
    /\ InitScoreVars

PairCalled(op, adID, priority) ==
    LET again == /\ call[1].op = op
                 /\ call[1].id = adID
                 /\ call[1].prio = priority
    IN  [call EXCEPT ![1] =
            [Idle EXCEPT !.op = op, !.id = adID, !.prio = priority,
                         !.k = IF again THEN 2 ELSE 1,
                         !.items = IF again
                                   THEN <<call[1].items[Len(call[1].items)], redis>>
                                   ELSE <<redis>>]]

PairTick ==
    /\ now < MaxNow
    /\ now' = now + 1
    /\ UNCHANGED <<redis, ret, enqAt, call, restPair>>

PairEnqueue(adID, priority) ==
    /\ redis' = ZAdd(redis, getShardKey(adID),
                     [member |-> adID, score |-> calculateScore(priority, now)])
    /\ ret' = Ret("Enqueue", adID, priority, <<>>, "none")
    /\ enqAt' = KeepEnqAt([enqAt EXCEPT ![adID] = now], redis', <<>>)
    /\ call' = PairCalled("Enqueue", adID, priority)
    /\ UNCHANGED <<now, restPair>>

PairUpdatePriority(adID, newPriority) ==
    LET key == getShardKey(adID)
    IN  /\ IF ~ZHas(redis, key, adID)
           THEN /\ redis' = redis
                /\ ret' = Ret("UpdatePriority", adID, newPriority, <<>>, "not_in_queue")
           ELSE /\ redis' = ZAdd(redis, key,
                        [member |-> adID,
                         score |-> UpdatedScore(ZScore(redis, key, adID), newPriority)])
                /\ ret' = Ret("UpdatePriority", adID, newPriority, <<>>, "none")
        /\ enqAt' = KeepEnqAt(enqAt, redis', <<>>)
        /\ call' = PairCalled("UpdatePriority", adID, newPriority)
        /\ UNCHANGED <<now, restPair>>

PairRemove(adID) ==
    LET key == getShardKey(adID)
    IN  /\ redis' = ZRem(redis, key, {adID})
        /\ ret' = Ret("Remove", adID, 0, <<>>,
                      IF ZRemCount(redis, key, {adID}) = 0 THEN "not_in_queue" ELSE "none")
        /\ enqAt' = KeepEnqAt(enqAt, redis', <<>>)
        /\ call' = PairCalled("Remove", adID, 0)
        /\ UNCHANGED <<now, restPair>>

NextPair ==
    \/ PairTick
    \/ \E a \in AdIds, p \in Priorities : PairEnqueue(a, p)
    \/ \E a \in AdIds, p \in Priorities : PairUpdatePriority(a, p)
    \/ \E a \in AdIds : PairRemove(a)

SpecPair == InitPair /\ [][NextPair]_vars

(***************************************************************************)
(* Claims checked under SpecPair.                                          *)
(***************************************************************************)
\* The queue before the last call.
QueueBefore == call[1].items[Len(call[1].items)]

EntriesOf(r, adID) == {z \in AllEntries(r) : z.member = adID}

\* C24: Enqueue of an id that is already in the queue leaves the queue with
\* exactly one entry for the id and the size it had; the entry is in the
\* shard it was in, the shard of the id's hash, with the score computed from
\* the priority and the time of this call, and no other entry is changed.
C24_ReEnqueueReplaces ==
    (call[1].op = "Enqueue" /\ call[1].id \in QueuedIds(QueueBefore)) =>
        LET adID == call[1].id
            key == getShardKey(adID)
            entry == [member |-> adID, score |-> calculateScore(call[1].prio, enqAt[adID])]
        IN  /\ EntriesOf(redis, adID) = {entry}
            /\ entry \in redis[key]
            /\ ZHas(QueueBefore, key, adID)
            /\ Cardinality(AllEntries(redis)) = Cardinality(AllEntries(QueueBefore))
            /\ \A k \in ShardKeys :
                  {z \in redis[k] : z.member # adID} = {z \in QueueBefore[k] : z.member # adID}

\* An id that was queued beside another entry of its shard was enqueued
\* again, at a later second and with another priority.
C24_Witness ==
    /\ call[1].op = "Enqueue"
    /\ call[1].id \in QueuedIds(QueueBefore)
    /\ \E z \in EntriesOf(QueueBefore, call[1].id) :
          /\ PriorityOfScore(z.score) # call[1].prio
          /\ TimestampPart(z.score) # TMax - enqAt[call[1].id]
    /\ \E z \in redis[getShardKey(call[1].id)] : z.member # call[1].id

\* C25: UpdatePriority(id, p) called a second time in a row leaves the queue
\* as the first call left it, and returns what the first call returned.
C25_UpdateIdempotent ==
    (call[1].op = "UpdatePriority" /\ call[1].k = 2) =>
        /\ redis = QueueBefore
        /\ ret.err = (IF call[1].id \in QueuedIds(QueueBefore) THEN "none" ELSE "not_in_queue")
        /\ call[1].id \in QueuedIds(QueueBefore) =>
              PriorityOfScore(ZScore(QueueBefore, getShardKey(call[1].id), call[1].id))
                  = call[1].prio

\* The first of two calls in a row moved an entry that had waited to
\* another priority, and the second call came a second later.
C25_Witness ==
    /\ call[1].op = "UpdatePriority"
    /\ call[1].k = 2
    /\ ret.err = "none"
    /\ call[1].items[1] # call[1].items[2]
    /\ now > enqAt[call[1].id]
    /\ Cardinality(AllEntries(redis)) >= 2

(***************************************************************************)
(* SpecCmd: the command service.  ExecuteCommand handles one command at a  *)
(* time and is a step at every Save of the command: Parse and the first    *)
(* Save; ValidateCommand, CanExecute and MarkInvalid or StartExecution;    *)
(* Execute with what it does to the ads table and the queue.  Ads are      *)
(* created between commands.  The parser is the mock parser or the Google  *)
(* ADK parser, whose answer can be any intent with any parameters and      *)
(* which falls back to the mock parser.                                    *)
(***************************************************************************)
restCmd == <<ret, enqAt, raceVars, adVars, storeVars, sysVars, starveVars, lookupVars,
            poolVars, sc>>

CmdAdIds == 1..NumCmdAds

\* The numbers the commands carry.
PriorityValues == {0, PriorityNormal, 6}
MinutesValues == {-1, 0}
CountValues == {0, 2}
SecondsValues == {-5, 0, 60}

Digits(values) == {n \in values : n >= 0}

MockTexts ==
    {Text("change priority to N for all ads in the F family", n, 0, g) :
        n \in Digits(PriorityValues), g \in GameFamilies}
    \cup {Text("set priority to N for ads older than M minutes", n, m, "") :
        n \in Digits(PriorityValues), m \in Digits(MinutesValues)}
    \cup {Text("show the next N ads to be processed", n, 0, "") : n \in Digits(CountValues)}
    \cup {Text("what's the current queue distribution by priority", 0, 0, "")}
    \cup {Text("list all ads waiting longer than N minutes", m, 0, "") :
        m \in Digits(MinutesValues)}
    \cup {Text("enable starvation mode", 0, 0, "")}
    \cup {Text("set maximum wait time to N seconds", n, 0, "") : n \in Digits(SecondsValues)}
    \cup {Text("something else", 0, 0, "")}

IntentKeys(intent) ==
    CASE intent = "change_priority_by_game_family" -> {"priority", "gameFamily"}
      [] intent = "change_priority_by_age" -> {"priority", "minutes"}
      [] intent = "show_next_ads" -> {"count"}
      [] intent = "waiting_ads" -> {"minutes"}
      [] intent = "set_max_wait_time" -> {"seconds"}
      [] OTHER -> {}

ValuesIf(key, has, values, none) == IF key \in has THEN values ELSE {none}

ParametersOver(keys) ==
    UNION {{[has |-> has, priority |-> p, gameFamily |-> g, minutes |-> m, count |-> n,
             seconds |-> sec] :
                p \in ValuesIf("priority", has, PriorityValues, 0),
                g \in ValuesIf("gameFamily", has, GameFamilies, ""),
                m \in ValuesIf("minutes", has, MinutesValues, 0),
                n \in ValuesIf("count", has, CountValues, 0),
                sec \in ValuesIf("seconds", has, SecondsValues, 0)} :
           has \in SUBSET keys}

\* What parseAPIResponse can give: the intent and the parameters of the
\* model's answer, whatever they are.
AdkCommands(t) ==
    UNION {{NewCommand(intent, parameters, t) : parameters \in ParametersOver(IntentKeys(intent))} :
           intent \in supportedIntents \cup {"set_worker_count"}}

ParseResults(parser, t) ==
    {MockParse(text, t) : text \in MockTexts}
    \cup (IF parser = "adk"
          THEN {[cmd |-> c, err |-> NoErr] : c \in AdkCommands(t)}
          ELSE {})

\* The loop of ChangePriorityForGameFamily and ChangePriorityForOlderAds over
\* the queue: UpdatePriority of every id, an error passed over.
RECURSIVE QueueUpdateAll(_, _, _)
QueueUpdateAll(r, ids, newPriority) ==
    IF ids = <<>> THEN r
    ELSE LET adID == Head(ids)
             key == getShardKey(adID)
         IN  QueueUpdateAll(
                 IF ZHas(r, key, adID)
                 THEN ZAdd(r, key, [member |-> adID,
                                    score |-> UpdatedScore(ZScore(r, key, adID), newPriority)])
                 ELSE r,
                 Tail(ids), newPriority)

\* The two bulk changes after their selection: UpdatePriorityBatch, then the
\* queue; count is updatedCount.
ChangePriorityOf(st, r, ids, newPriority) ==
    IF ids = <<>> THEN [store |-> st, redis |-> r, count |-> 0]
    ELSE [store |-> UpdatePriorityBatch(st, ids, newPriority),
          redis |-> QueueUpdateAll(r, ids, newPriority),
          count |-> Cardinality({i \in 1..Len(ids) : ZHas(r, getShardKey(ids[i]), ids[i])})]

\* FindOlderThan(threshold): created_at < threshold.
OlderThan(st, threshold) == {a \in AdIds : st[a] # NoRow /\ st[a].createdAt < threshold}

QueuedOlderThan(st, threshold) ==
    OldestFirst(st, {a \in OlderThan(st, threshold) : st[a].status = AdStatusQueued})

Executed(c, st, r, cfg, err) == [cmd |-> c, store |-> st, redis |-> r, config |-> cfg, err |-> err]

\* MockCommandExecutor.Execute, with the calls of the ad service it makes;
\* fails says that the repository or the queue returns an error.
Execute(c, st, r, cfg, t, fails) ==
    LET priority == GetPriorityParameter(c, "priority").value
        gameFamily == GetStringParameter(c, "gameFamily").value
        minutes == GetIntParameter(c, "minutes").value
        count == GetIntParameter(c, "count").value
        seconds == GetIntParameter(c, "seconds").value
        failed == Executed(FailExecution(c, "backend error", t), st, r, cfg, "backend error")
    IN  CASE c.intent = "change_priority_by_game_family" ->
                IF fails \/ ~IsValid(priority) THEN failed
                ELSE LET done == ChangePriorityOf(st, r, QueuedOfFamily(st, gameFamily), priority)
                     IN  Executed(CompleteExecution(c, done.count, t),
                                  done.store, done.redis, cfg, NoErr)
          [] c.intent = "change_priority_by_age" ->
                IF fails \/ ~IsValid(priority) THEN failed
                ELSE LET done == ChangePriorityOf(st, r,
                                    QueuedOlderThan(st, t - minutes * 60), priority)
                     IN  Executed(CompleteExecution(c, done.count, t),
                                  done.store, done.redis, cfg, NoErr)
          [] c.intent = "show_next_ads" ->
                IF fails THEN failed
                ELSE Executed(CompleteExecution(c, Min(count, SizeFrom(r, 0)), t),
                              st, r, cfg, NoErr)
          [] c.intent = "queue_distribution" ->
                IF fails THEN failed
                ELSE Executed(CompleteExecution(c,
                                  BandCountFrom(r, 0, 1) + BandCountFrom(r, 0, 2)
                                  + BandCountFrom(r, 0, 3) + BandCountFrom(r, 0, 4)
                                  + BandCountFrom(r, 0, 5), t),
                              st, r, cfg, NoErr)
          [] c.intent = "waiting_ads" ->
                IF fails THEN failed
                ELSE Executed(CompleteExecution(c,
                                  Cardinality(OlderThan(st, t - minutes * 60)), t),
                              st, r, cfg, NoErr)
          [] c.intent = "enable_starvation_mode" ->
                Executed(CompleteExecution(c, 0, t), st, r, cfg, NoErr)
          [] c.intent = "set_max_wait_time" ->
                Executed(CompleteExecution(c, seconds, t), st, r, cfg, NoErr)
          [] OTHER ->
                Executed(FailExecution(c, "unsupported command intent", t), st, r, cfg,
                         "unsupported command intent")

InitCmd ==
    /\ InitQueueVars
    /\ InitRaceVars
    /\ InitAdVars
    /\ InitStoreVars
    /\ InitSysVars
    /\ InitStarveVars
    /\ cmd = NoCommand
    /\ exec \in {[ExecIdle EXCEPT !.parser = p] : p \in {"mock", "adk"}}
    /\ InitLookupVars
    /\ InitPoolVars
    /\ InitScoreVars

Trail(trail, status) ==
    IF trail # <<>> /\ trail[Len(trail)] = status THEN trail ELSE Append(trail, status)

CmdTick ==
    /\ now < MaxNow
    /\ now' = now + 1
    /\ UNCHANGED <<redis, config, store, cmdVars, restCmd>>

\* AdService.CreateAd between two commands: Save and Enqueue.
CmdCreateAd(id, priority) ==
    /\ exec.pc = "idle"
    /\ store[id] = NoRow
    /\ \E g \in GameFamilies :
          store' = PostgresSave(store, CreateAd(id, g, priority, now)).store
    /\ redis' = ZAdd(redis, getShardKey(id),
                     [member |-> id, score |-> calculateScore(priority, now)])
    /\ UNCHANGED <<now, config, cmdVars, restCmd>>

\* ExecuteCommand: Parse, and the Save of the command it gave.
CmdParse ==
    /\ exec.pc = "idle"
    /\ Growable(CmdAdIds)
    /\ \E res \in ParseResults(exec.parser, now) :
          IF res.err # NoErr
          THEN /\ cmd' = NoCommand
               /\ exec' = [exec EXCEPT !.pc = "returned", !.status = CommandStatusInvalid,
                                       !.error = res.err]
          ELSE /\ cmd' = res.cmd
               /\ exec' = [exec EXCEPT !.pc = "parsed", !.trail = <<res.cmd.status>>]
    /\ UNCHANGED <<redis, now, config, store, restCmd>>

\* ExecuteCommand: ValidateCommand and CanExecute, then MarkInvalid and the
\* response, or StartExecution; the Save.
CmdStart ==
    /\ exec.pc = "parsed"
    /\ LET err == ValidateCommand(cmd)
           reason == IF err # NoErr THEN err
                     ELSE IF ~CanExecute(cmd) THEN "Command cannot be executed"
                     ELSE NoErr
       IN  IF reason # NoErr
           THEN /\ cmd' = MarkInvalid(cmd, reason)
                /\ exec' = [exec EXCEPT !.pc = "returned", !.status = cmd'.status,
                                        !.error = reason,
                                        !.trail = Trail(@, cmd'.status)]
           ELSE /\ cmd' = StartExecution(cmd)
                /\ exec' = [exec EXCEPT !.pc = "executing", !.trail = Trail(@, cmd'.status)]
    /\ UNCHANGED <<redis, now, config, store, restCmd>>

\* ExecuteCommand: Execute, FailExecution on its error, the Save and the
\* response.
CmdExecute ==
    /\ exec.pc = "executing"
    /\ \E fails \in BOOLEAN :
          LET done == Execute(cmd, store, redis, config, now, fails)
          IN  /\ cmd' = IF done.err # NoErr THEN FailExecution(done.cmd, done.err, now)
                        ELSE done.cmd
              /\ store' = done.store
              /\ redis' = done.redis
              /\ config' = done.config
              /\ exec' = [exec EXCEPT !.pc = "returned", !.status = cmd'.status,
                                      !.error = done.err,
                                      !.trail = Trail(@, cmd'.status)]
    /\ UNCHANGED <<now, restCmd>>

\* The response is out; the next request can come.
CmdReturn ==
    /\ exec.pc = "returned"
    /\ cmd' = NoCommand
    /\ exec' = [ExecIdle EXCEPT !.parser = exec.parser]
    /\ UNCHANGED <<redis, now, config, store, restCmd>>

NextCmd ==
    \/ CmdTick
    \/ \E a \in CmdAdIds, p \in {PriorityLow, PriorityNormal} : CmdCreateAd(a, p)
    \/ CmdParse
    \/ CmdStart
    \/ CmdExecute
    \/ CmdReturn

SpecCmd == InitCmd /\ [][NextCmd]_vars

(***************************************************************************)
(* Claims checked under SpecCmd.                                           *)
(***************************************************************************)
TerminalStatuses == {CommandStatusExecuted, CommandStatusFailed, CommandStatusInvalid}

ClaimedEdges ==
    {<<CommandStatusPending, CommandStatusExecuting>>,
     <<CommandStatusExecuting, CommandStatusExecuted>>,
     <<CommandStatusExecuting, CommandStatusFailed>>,
     <<CommandStatusExecuting, CommandStatusInvalid>>}

TakenEdges ==
    {<<CommandStatusPending, CommandStatusExecuting>>,
     <<CommandStatusPending, CommandStatusInvalid>>,
     <<CommandStatusExecuting, CommandStatusExecuted>>,
     <<CommandStatusExecuting, CommandStatusFailed>>}

LifecycleAlong(edges) ==
    /\ (cmd # NoCommand /\ cmd' # NoCommand /\ cmd'.status # cmd.status)
          => <<cmd.status, cmd'.status>> \in edges
    /\ (cmd' # NoCommand /\ exec'.pc = "returned") => cmd'.status \in TerminalStatuses
    /\ (cmd # NoCommand /\ cmd' # NoCommand /\ cmd.status \in TerminalStatuses)
          => cmd'.status = cmd.status

\* C28: a command handled by ExecuteCommand changes status only along
\* pending -> executing -> {executed, failed, invalid}; it has one of the
\* three terminal statuses when ExecuteCommand returns, and a terminal
\* status never changes.
C28_Lifecycle == [][LifecycleAlong(ClaimedEdges)]_vars

\* C28 as amended: a command changes status only along pending -> executing
\* -> {executed, failed} or pending -> invalid; it has one of the three
\* terminal statuses when ExecuteCommand returns, and a terminal status
\* never changes.
C28_LifecycleValidatedFirst == [][LifecycleAlong(TakenEdges)]_vars

\* ExecuteCommand has returned for a command that went from pending to
\* executing and, on an error of the ad service, to failed.
C28_Witness ==
    /\ exec.pc = "returned"
    /\ exec.trail = <<CommandStatusPending, CommandStatusExecuting, CommandStatusFailed>>
    /\ cmd.status = CommandStatusFailed
    /\ cmd.error # ""

BadParameter(c) ==
    LET has == c.parameters.has
    IN  \/ /\ c.intent \in {"change_priority_by_game_family", "change_priority_by_age"}
           /\ ("priority" \notin has \/ c.parameters.priority < 1 \/ c.parameters.priority > 5)
        \/ c.intent = "change_priority_by_game_family" /\ "gameFamily" \notin has
        \/ /\ c.intent \in {"change_priority_by_age", "waiting_ads"}
           /\ ("minutes" \notin has \/ c.parameters.minutes < 0)
        \/ c.intent = "show_next_ads" /\ ("count" \notin has \/ c.parameters.count <= 0)
        \/ c.intent = "set_max_wait_time" /\ ("seconds" \notin has \/ c.parameters.seconds <= 0)

\* C29: a command with a missing or out-of-range parameter for its intent
\* (priority outside 1..5, count <= 0, seconds <= 0, minutes < 0) is marked
\* invalid with a reason and is never executed: it is pending or invalid,
\* invalid when ExecuteCommand returns, and no step that handles it changes
\* the ads table, the queue or the configuration.
C29_BadParameterIsInvalid ==
    [][BadParameter(cmd') =>
          /\ cmd'.status \in {CommandStatusPending, CommandStatusInvalid}
          /\ exec'.pc = "returned" => (cmd'.status = CommandStatusInvalid /\ cmd'.error # "")
          /\ UNCHANGED <<store, redis, config>>]_vars

\* C30: when enable_starvation_mode has been executed the configuration has
\* the anti-starvation mechanism off, and when set_max_wait_time has been
\* executed its MaxWaitTime is the seconds of the command.
C30_ConfigCommandsTakeEffect ==
    (exec.pc = "returned" /\ cmd.status = CommandStatusExecuted) =>
        /\ cmd.intent = "enable_starvation_mode" => ~config.AntiStarvationEnabled
        /\ cmd.intent = "set_max_wait_time" => config.MaxWaitTime = cmd.parameters.seconds

(***************************************************************************)
(* SpecLookup: the commands the service has handled and their lookup.      *)
(* ExecuteCommand is one step here, over an empty ads table and queue; the *)
(* repository keeps the pointer it was given at the first Save, so it      *)
(* holds the command as ExecuteCommand left it.  A CommandID is a number;  *)
(* 0 is the zero value CommandID{}, which NewCommandID never gives.        *)
(***************************************************************************)
restLookup == <<queueVars, raceVars, adVars, store, storeVars, sysVars, starveVars, cmd,
               poolVars, sc>>

ErrCommandNotFound == "command not found"

CommandIDZero == 0

\* NewCommandID: an id no command has yet.
NewCommandID(saved) == CHOOSE id \in CommandIds : saved[id] = NoCommand

\* ExecuteCommand from the parsed command to the command it leaves.
Handled(c, st, r, cfg, t, fails) ==
    LET err == ValidateCommand(c)
        reason == IF err # NoErr THEN err
                  ELSE IF ~CanExecute(c) THEN "Command cannot be executed"
                  ELSE NoErr
        done == Execute(StartExecution(c), st, r, cfg, t, fails)
    IN  IF reason # NoErr THEN MarkInvalid(c, reason)
        ELSE IF done.err # NoErr THEN FailExecution(done.cmd, done.err, t)
        ELSE done.cmd

\* MemoryCommandRepository.FindByID.
CommandFindByID(saved, id) ==
    IF id \in CommandIds /\ saved[id] # NoCommand
    THEN [cmd |-> saved[id], err |-> NoErr]
    ELSE [cmd |-> NoCommand, err |-> ErrCommandNotFound]

InitLookup ==
    /\ InitQueueVars
    /\ InitRaceVars
    /\ InitAdVars
    /\ InitStoreVars
    /\ InitSysVars
    /\ InitStarveVars
    /\ cmd = NoCommand
    /\ exec \in {[ExecIdle EXCEPT !.parser = p] : p \in {"mock", "adk"}}
    /\ InitLookupVars
    /\ InitPoolVars
    /\ InitScoreVars

\* ExecuteCommand; exec holds the response, whose error is the command's.
LookupExecuteCommand ==
    /\ \E id \in CommandIds : commands[id] = NoCommand
    /\ \E res \in ParseResults(exec.parser, now), fails \in BOOLEAN :
          IF res.err # NoErr
          THEN /\ exec' = [exec EXCEPT !.pc = "returned", !.status = CommandStatusInvalid,
                                       !.error = res.err, !.trail = <<>>]
               /\ commands' = commands
          ELSE LET c == Handled(res.cmd, store, redis, config, now, fails)
                   id == NewCommandID(commands)
               IN  /\ commands' = [commands EXCEPT ![id] = c]
                   /\ exec' = [exec EXCEPT !.pc = "returned", !.status = c.status,
                                           !.error = c.error, !.trail = <<id>>]
    /\ UNCHANGED <<lookup, restLookup>>

\* GetCommandStatus(commandID): cmdID is declared and never set from
\* commandID.
GetCommandStatus(commandID) ==
    /\ LET cmdID == CommandIDZero
           found == CommandFindByID(commands, cmdID)
       IN  lookup' = [op |-> "GetCommandStatus", arg |-> commandID,
                      status |-> found.cmd.status, result |-> found.cmd.result,
                      error |-> found.cmd.error, err |-> found.err]
    /\ UNCHANGED <<commands, exec, restLookup>>

NextLookup ==
    \/ LookupExecuteCommand
    \/ \E id \in CommandIds \cup {CommandIDZero} : GetCommandStatus(id)

SpecLookup == InitLookup /\ [][NextLookup]_vars

(***************************************************************************)
(* Claims checked under SpecLookup.                                        *)
(***************************************************************************)
\* C31: GetCommandStatus of the id ExecuteCommand returned for a command
\* gives the status, result and error of that command, and no error.
C31_LookupFindsCommand ==
    (lookup.op = "GetCommandStatus" /\ lookup.arg \in CommandIds
        /\ commands[lookup.arg] # NoCommand) =>
            /\ lookup.err = NoErr
            /\ lookup.status = commands[lookup.arg].status
            /\ lookup.result = commands[lookup.arg].result
            /\ lookup.error = commands[lookup.arg].error

(***************************************************************************)
(* SpecPool: the processor from Start to Stop.  main gives Start the       *)
(* background context, which is never cancelled; Stop closes stopChan and  *)
(* waits for the goroutines Start launched.  The steps of the dispatcher,  *)
(* the workers, the daemon and the API process are those of SpecSys; a     *)
(* goroutine takes a step of its loop only while it has not returned.      *)
(***************************************************************************)
Dispatcher == <<"pollQueue", 0>>

Daemon == <<"runAntiStarvation", 0>>

Worker(w) == <<"runWorker", w>>

\* Start: the workers with their channels, pollQueue and runAntiStarvation,
\* each counted in p.wg.
InitPool ==
    /\ InitQueueVars
    /\ InitRaceVars
    /\ InitAdVars
    /\ InitStoreVars
    /\ InitStarveVars
    /\ InitCmdVars
    /\ InitScoreVars
    /\ created = [a \in AdIds |-> NotCreated]
    /\ disp = DispIdle
    /\ chans = [w \in 1..PoolWorkerCount |-> <<>>]
    /\ work = [w \in 1..PoolWorkerCount |-> WorkIdle]
    /\ rw = RwIdle
    /\ dm = DmIdle
    /\ ctxDone = FALSE
    /\ dropped = {}
    /\ aborted = {}
    /\ stopCall = "no"
    /\ wg = {Worker(w) : w \in 1..PoolWorkerCount} \cup {Dispatcher, Daemon}

stopChanClosed == stopCall # "no"

\* Stop: close(p.stopChan); then p.wg.Wait().
Stop ==
    /\ stopCall = "no"
    /\ stopCall' = "wait"
    /\ UNCHANGED <<redis, store, now, config, sysVars, wg, restPool>>

\* Stop: p.wg.Wait() returns when every goroutine has called Done.
StopReturn ==
    /\ stopCall = "wait"
    /\ wg = {}
    /\ stopCall' = "returned"
    /\ UNCHANGED <<redis, store, now, config, sysVars, wg, restPool>>

\* pollQueue: the select takes the ticker.
PoolPoll ==
    /\ Dispatcher \in wg
    /\ PollPeek

\* pollQueue: the select takes <-p.stopChan; the deferred wg.Done.
PollReturn ==
    /\ Dispatcher \in wg
    /\ disp.pc = "tick"
    /\ stopChanClosed
    /\ wg' = wg \ {Dispatcher}
    /\ UNCHANGED <<redis, store, now, config, sysVars, stopCall, restPool>>

\* runWorker: the select takes an item of processingCh.
PoolReceive(w) ==
    /\ Worker(w) \in wg
    /\ WorkerReceive(w)

\* runWorker: the select takes <-p.stopChan; worker.stopCh is never closed.
WorkerReturnOnStopCh(w) ==
    /\ Worker(w) \in wg
    /\ work[w].pc = "idle"
    /\ FALSE
    /\ wg' = wg \ {Worker(w)}
    /\ UNCHANGED <<redis, store, now, config, sysVars, stopCall, restPool>>

WorkerReturn(w) ==
    /\ Worker(w) \in wg
    /\ work[w].pc = "idle"
    /\ stopChanClosed
    /\ wg' = wg \ {Worker(w)}
    /\ UNCHANGED <<redis, store, now, config, sysVars, stopCall, restPool>>

\* runAntiStarvation: the select takes the ticker.
PoolDaemon ==
    /\ Daemon \in wg
    /\ DaemonRange

\* runAntiStarvation: the select takes <-p.stopChan.
DaemonReturn ==
    /\ Daemon \in wg
    /\ dm.pc = "tick"
    /\ stopChanClosed
    /\ wg' = wg \ {Daemon}
    /\ UNCHANGED <<redis, store, now, config, sysVars, stopCall, restPool>>

PoolDispatcherNext ==
    \/ PoolPoll
    \/ \E key \in ShardKeys : PollZRem(key)
    \/ Distribute

PoolWorkerNext(w) ==
    \/ PoolReceive(w)
    \/ WorkerFind(w)
    \/ WorkerStart(w)
    \/ WorkerComplete(w)

PoolDaemonNext ==
    \/ PoolDaemon
    \/ DaemonItem

NextPool ==
    \/ ApiNext(SysAdIds)
    \/ PoolDispatcherNext
    \/ \E w \in Workers : PoolWorkerNext(w)
    \/ PoolDaemonNext
    \/ PollReturn
    \/ \E w \in Workers : WorkerReturn(w)
    \/ DaemonReturn
    \/ Stop
    \/ StopReturn

SpecPool == InitPool /\ [][NextPool]_vars

\* SpecStop: the same processor over fewer ads.
NextStop ==
    \/ ApiNext(LiveAdIds)
    \/ PoolDispatcherNext
    \/ \E w \in Workers : PoolWorkerNext(w)
    \/ PoolDaemonNext
    \/ PollReturn
    \/ \E w \in Workers : WorkerReturn(w)
    \/ DaemonReturn
    \/ Stop
    \/ StopReturn

SpecStop == InitPool /\ [][NextStop]_vars

\* FairStop: every goroutine keeps taking the steps of its loop (the tickers
\* fire, the statements and the processing time end), and a select that
\* finds stopChan closed again and again takes that case at some time: Go
\* chooses among the ready cases of a select at random.
FairStop ==
    /\ SpecStop
    /\ WF_vars(PoolDispatcherNext) /\ SF_vars(PollReturn)
    /\ WF_vars(PoolDaemonNext) /\ SF_vars(DaemonReturn)
    /\ \A w \in 1..PoolWorkerCount :
          WF_vars(PoolWorkerNext(w)) /\ SF_vars(WorkerReturn(w))
    /\ WF_vars(StopReturn)

(***************************************************************************)
(* Claims checked under SpecPool.                                          *)
(***************************************************************************)
Queued(st, a) == st[a] # NoRow /\ st[a].status = AdStatusQueued

\* Worker w leaves processAd at its StartProcessing or Save with an error.
Discards(w) == work[w].pc = "start" /\ work'[w].pc = "idle"

\* Worker w starts the work of the item it holds.
StartsWork(w) == work[w].pc = "start" /\ work'[w].pc = "sleep"

\* C32: whatever the interleaving of the workers, a row becomes PROCESSING
\* only from QUEUED and never becomes QUEUED again, so the transition is
\* committed at most once; a worker starts the work of an item only in the
\* step that commits the transition, and a worker that discards the entry
\* leaves the item as it is.
C32_StartedOnce ==
    [][\A a \in SysAdIds :
         /\ (store'[a] # store[a] /\ store'[a].status = AdStatusProcessing)
                => Queued(store, a)
         /\ (store[a] # NoRow /\ ~Queued(store, a)) => ~Queued(store', a)
         /\ \A w \in Workers :
               /\ (StartsWork(w) /\ work[w].id = a)
                     => (Queued(store, a) /\ store'[a].status = AdStatusProcessing)
               /\ (Discards(w) /\ work[w].id = a) => store'[a] = store[a]]_vars

\* Two workers hold the same id, both read it as QUEUED; one has committed
\* the transition and the other is about to save.
C32_Witness ==
    \E w, v \in Workers :
        /\ w # v
        /\ work[w].pc = "sleep"
        /\ work[v].pc = "start"
        /\ work[v].id = work[w].id
        /\ work[v].ent.status = AdStatusQueued

\* Worker w's Save of the PROCESSING transition fails on the version.
SaveLosesLock(w) ==
    /\ work[w].pc = "start"
    /\ work'[w] # work[w]
    /\ StartProcessing(work[w].ent, now).err = NoErr
    /\ PostgresSave(store, StartProcessing(work[w].ent, now).ad).err
           = ErrOptimisticLockFailed

\* C33: a worker whose Save of the PROCESSING transition fails with the
\* optimistic-lock error goes on to reload the same item (and then re-checks
\* its state and retries).
C33_ReloadsAfterLockFailure ==
    [][\A w \in Workers :
         SaveLosesLock(w) => (work'[w].pc = "find" /\ work'[w].id = work[w].id)]_vars

\* processAd of worker w returns an error: from FindByID, from
\* StartProcessing or its Save, or from the Save of the final status.
Fails(w) ==
    \/ work[w].pc \in {"find", "start"} /\ work'[w].pc = "idle"
    \/ /\ work[w].pc = "sleep"
       /\ work'[w].pc = "idle"
       /\ PostgresSave(store, CompleteProcessing(work[w].ent, now).ad).err # NoErr

Holders(a) == {w \in Workers : work[w].pc # "idle" /\ work[w].id = a}

InChannels(a) == \E w \in Workers : a \in SeqToSet(chans[w])

Sent == {w \in Workers : chans'[w] # chans[w]}

C39_StopReturns ==
    /\ (stopCall = "wait") ~> (stopCall = "returned" /\ wg = {})
    /\ [][\A w \in Workers :
             (Worker(w) \in wg /\ Worker(w) \notin wg') => work[w].pc = "idle"]_vars

\* Stop has returned and a channel still holds an entry.
C39_Witness ==
    /\ stopCall = "returned"
    /\ \E w \in Workers : chans[w] # <<>>

(***************************************************************************)
(* SpecScore: the score of the sorted sets (calculateScore of the queue    *)
(* manager), its decoding (UpdatePriority, Dequeue) and the score of a     *)
(* QueueItem, applied to two entries with any valid priorities and with    *)
(* enqueue times at both ends of the range of times.                       *)
(***************************************************************************)
restScore == <<queueVars, raceVars, adVars, store, storeVars, sysVars, starveVars, cmdVars,
               poolVars>>

ScorePriorities == PriorityLow..PriorityHigh

ScoreTimes == (0..MaxScoreSpan) \cup ((TMax - MaxScoreSpan)..TMax)

InitScore ==
    /\ InitQueueVars
    /\ InitRaceVars
    /\ InitAdVars
    /\ InitStoreVars
    /\ InitSysVars
    /\ InitStarveVars
    /\ cmd = NoCommand
    /\ exec = ExecIdle
    /\ InitLookupVars
    /\ stopCall = "no"
    /\ wg = {}
    /\ sc \in [pc : {"in"}, p1 : ScorePriorities, t1 : ScoreTimes,
                          p2 : ScorePriorities, t2 : ScoreTimes]

\* Enqueue: the scores of the two entries.
ScoreEnqueue ==
    /\ sc.pc = "in"
    /\ sc' = [pc |-> "scored", p1 |-> sc.p1, t1 |-> sc.t1, p2 |-> sc.p2, t2 |-> sc.t2,
              s1 |-> calculateScore(sc.p1, sc.t1), s2 |-> calculateScore(sc.p2, sc.t2)]
    /\ UNCHANGED restScore

\* UpdatePriority and Dequeue: the priority and the time component read back
\* from the first score.
ScoreDecode ==
    /\ sc.pc = "scored"
    /\ sc' = [pc |-> "decoded", p1 |-> sc.p1, t1 |-> sc.t1, p2 |-> sc.p2, t2 |-> sc.t2,
              s1 |-> sc.s1, s2 |-> sc.s2,
              priority |-> PriorityOfScore(sc.s1), timestampPart |-> TimestampPart(sc.s1)]
    /\ UNCHANGED restScore

\* NewQueueItem with the priorities and times of the two entries.
ScoreItems ==
    /\ sc.pc = "decoded"
    /\ sc' = [pc |-> "items", p1 |-> sc.p1, t1 |-> sc.t1, p2 |-> sc.p2, t2 |-> sc.t2,
              i1 |-> NewQueueItem(1, sc.p1, sc.t1).score,
              i2 |-> NewQueueItem(2, sc.p2, sc.t2).score]
    /\ UNCHANGED restScore

NextScore ==
    \/ ScoreEnqueue
    \/ ScoreDecode
    \/ ScoreItems

SpecScore == InitScore /\ [][NextScore]_vars

(***************************************************************************)
(* Claims checked under SpecScore.                                         *)
(***************************************************************************)
\* C36: the score of (p, t) decodes back to p and TMax - t; an entry of
\* higher priority has the strictly greater score whatever the two times,
\* and of two entries of one priority the earlier has the strictly greater
\* score.
C36_ScoreEncodesOrder ==
    /\ sc.pc \in {"scored", "decoded"} =>
          /\ sc.p1 > sc.p2 => sc.s1 > sc.s2
          /\ (sc.p1 = sc.p2 /\ sc.t1 < sc.t2) => sc.s1 > sc.s2
    /\ sc.pc = "decoded" =>
          /\ sc.priority = sc.p1
          /\ sc.timestampPart = TMax - sc.t1

\* The higher priority enqueued at the latest time against the lower
\* priority enqueued at time 0, scored and decoded.
C36_Witness ==
    /\ sc.pc = "decoded"
    /\ sc.p1 = sc.p2 + 1
    /\ sc.t1 = TMax
    /\ sc.t2 = 0

\* C40: the score of a QueueItem is higher for the higher priority and, at
\* equal priority, higher for the older timestamp.
C40_ItemScoreOrdersLikeQueue ==
    sc.pc = "items" =>
        /\ sc.p1 > sc.p2 => sc.i1 > sc.i2
        /\ (sc.p1 = sc.p2 /\ sc.t1 < sc.t2) => sc.i1 > sc.i2

(***************************************************************************)
(* SpecPass: ApplyAntiStarvation as one step, from its first line to its   *)
(* return with no other call in between, on queues filled at different     *)
(* times; the mechanism is enabled or not.  ret keeps the queue the pass   *)
(* found.                                                                  *)
(***************************************************************************)
\* The loop over the items read from shard i.
RECURSIVE BoostItems(_, _, _, _, _)
BoostItems(r, i, items, t, maxWaitTime) ==
    IF items = <<>> THEN r
    ELSE LET z == Head(items)
             written == IF NeedsBoost(z.score, t, maxWaitTime)
                        THEN ZAdd(r, i, [member |-> z.member,
                                         score |-> BoostedScore(z.score, t)])
                        ELSE r
         IN  BoostItems(written, i, Tail(items), t, maxWaitTime)

\* The loop over the shards.
RECURSIVE BoostShards(_, _, _, _)
BoostShards(r, i, t, maxWaitTime) ==
    IF i >= ShardCount THEN r
    ELSE BoostShards(BoostItems(r, i, ZRangeWithScores(r, i, 0, -1), t, maxWaitTime),
                     i + 1, t, maxWaitTime)

ApplyAntiStarvationAlways(r, cfg, t) == BoostShards(r, 0, t, cfg.MaxWaitTime)

ApplyAntiStarvation(r, cfg, t) ==
    IF ~cfg.AntiStarvationEnabled THEN r ELSE BoostShards(r, 0, t, cfg.MaxWaitTime)

InitPass ==
    /\ redis = [k \in ShardKeys |-> {}]
    /\ now = 0
    /\ config \in [AntiStarvationEnabled : BOOLEAN, MaxWaitTime : MaxWaitTimes]
    /\ ret = NoRet
    /\ enqAt = [a \in AdIds |-> 0]
    /\ InitRaceVars
    /\ InitAdVars
    /\ InitStoreVars
    /\ InitSysVars
    /\ InitStarveVars
    /\ InitCmdVars
    /\ InitPoolVars
    /\ InitScoreVars

DaemonPass ==
    /\ redis' = ApplyAntiStarvation(redis, config, now)
    /\ ret' = [op |-> "ApplyAntiStarvation", before |-> redis, at |-> now]
    /\ UNCHANGED <<now, config, enqAt, raceVars, adVars, store, storeVars, sysVars,
                   starveVars, cmdVars, poolVars, sc>>

NextPass ==
    \/ StarveTick
    \/ \E a \in StarveAdIds, p \in Priorities : StarveEnqueue(a, p)
    \/ DaemonPass

SpecPass == InitPass /\ [][NextPass]_vars

(***************************************************************************)
(* Claims checked under SpecPass.                                          *)
(***************************************************************************)
\* An entry the pass has no reason to elevate.
AtRest(z) ==
    Age(z.score, now) <= config.MaxWaitTime \/ PriorityOfScore(z.score) = PriorityHigh

\* C37: a pass with the mechanism disabled changes no entry; an enabled
\* pass leaves every entry whose age is at most MaxWaitTime or whose
\* priority is 5 as it is; in both cases every shard holds the same ids
\* after the pass as before.
C37_PassFrame ==
    [][DaemonPass =>
          /\ ~config.AntiStarvationEnabled => redis' = redis
          /\ \A k \in ShardKeys : \A z \in redis[k] : AtRest(z) => z \in redis'[k]
          /\ \A k \in ShardKeys :
                {z.member : z \in redis'[k]} = {z.member : z \in redis[k]}]_vars

\* An enabled pass has elevated one entry and left another, of priority 5
\* or not older than MaxWaitTime, as it was.
C37_Witness ==
    /\ ret.op = "ApplyAntiStarvation"
    /\ config.AntiStarvationEnabled
    /\ redis = ApplyAntiStarvation(ret.before, config, ret.at)
    /\ \E z \in AllEntries(ret.before) : z \notin AllEntries(redis)
    /\ \E z \in AllEntries(ret.before) : z \in AllEntries(redis)

(***************************************************************************)
(* SpecPeek: GetNext (peek_next) beside Enqueue and DequeueBatch, the      *)
(* calls made one at a time.                                               *)
(***************************************************************************)
GetNextUnsorted(count) ==
    /\ ret' = Ret("GetNext", count, 0,
                  ItemsOf(TakeTop(CollectFrom(redis, 0, count), count), now), "none")
    /\ UNCHANGED <<redis, now, enqAt, restQ>>

\* GetNext: the top `count` entries of every shard, sorted by score, the
\* first `count` of them as queue items; no command writes.
GetNext(count) ==
    LET allItems == SortByScoreDesc(CollectFrom(redis, 0, count))
    IN  /\ ret' = Ret("GetNext", count, 0, ItemsOf(TakeTop(allItems, count), now), "none")
        /\ UNCHANGED <<redis, now, enqAt, restQ>>

NextPeek ==
    \/ Tick
    \/ \E a \in AdIds, p \in Priorities : Enqueue(a, p)
    \/ \E k \in 0..MaxBatch : GetNext(k)
    \/ \E k \in 0..MaxBatch : DequeueBatch(k)

SpecPeek == InitQ /\ [][NextPeek]_vars

(***************************************************************************)
(* Claims checked under SpecPeek.                                          *)
(***************************************************************************)
IdsOf(out) == [i \in 1..Len(out) |-> out[i].adID]

\* C38: GetNext changes no shard, and the DequeueBatch(k) that is the next
\* call after GetNext(k) returns the same ids in the same order.
C38_PeekMatchesBatch ==
    [][/\ (ret'.op = "GetNext" /\ ret' # ret) => redis' = redis
       /\ (ret.op = "GetNext" /\ ret'.op = "DequeueBatch" /\ ret'.arg = ret.arg)
             => IdsOf(ret'.out) = IdsOf(ret.out)]_vars

\* GetNext(k) has returned k >= 2 entries that start with two of different
\* shards, from a queue that holds more than k.
C38_Witness ==
    /\ ret.op = "GetNext"
    /\ ret.arg >= 2
    /\ Len(ret.out) = ret.arg
    /\ getShardKey(ret.out[1].adID) # getShardKey(ret.out[2].adID)
    /\ Cardinality(AllEntries(redis)) > ret.arg
====
